---- MODULE Spec2Model ----
(***************************************************************************)
(* Model of the heuristic scoring engine of SecureCheck: the phishing      *)
(* analyzers and score aggregator of PhishingService                       *)
(* (src/server/storage.ts) and the rule table of FraudService              *)
(* (src/client/src/pages/LandingPage.tsx).                                 *)
(*                                                                         *)
(* JavaScript strings are TLA+ strings; the string methods the code calls  *)
(* (includes, endsWith, split, toLowerCase, trim, replace, RegExp.test)    *)
(* are operators that compute what the methods compute.                    *)
(***************************************************************************)
EXTENDS Integers, Sequences, FiniteSets, TLC

(***************************************************************************)
(* String primitives (ECMAScript String.prototype)                         *)
(***************************************************************************)

Min2(a, b) == IF a <= b THEN a ELSE b

\* const v = ...; F(v): the rest of a block under a name for a value
With(v, F(_)) == F(v)

\* s.substring(i-1, j) with 1-based inclusive bounds, clamped to the string
slice(s, i, j) ==
  LET lo == IF i < 1 THEN 1 ELSE i
      hi == Min2(j, Len(s))
  IN  IF lo > hi THEN "" ELSE SubSeq(s, lo, hi)

\* s.charAt(i-1): the empty string when out of range
charAt(s, i) == slice(s, i, i)

substringFrom(s, i) == slice(s, i, Len(s))

\* s.includes(p)
includes(s, p) ==
  \/ Len(p) = 0
  \/ \E i \in 1..(Len(s) - Len(p) + 1) : SubSeq(s, i, i + Len(p) - 1) = p

\* s.endsWith(p)
endsWith(s, p) ==
  Len(p) <= Len(s) /\ slice(s, Len(s) - Len(p) + 1, Len(s)) = p

\* the least element of a non-empty set of integers
Least(S) == CHOOSE m \in S : \A x \in S : m <= x

\* s.indexOf(p), 1-based, 0 when p does not occur
indexOf(s, p) ==
  LET at == {i \in 1..(Len(s) - Len(p) + 1) : slice(s, i, i + Len(p) - 1) = p}
  IN  IF at = {} THEN 0 ELSE Least(at)

UpperAlpha == "ABCDEFGHIJKLMNOPQRSTUVWXYZ"
LowerAlpha == "abcdefghijklmnopqrstuvwxyz"
Digits == "0123456789"

\* the characters of a string, as a set
charsOf(s) == {SubSeq(s, i, i) : i \in 1..Len(s)}

UpperLetters == charsOf(UpperAlpha)
LowerLetters == charsOf(LowerAlpha)
DigitChars == charsOf(Digits)

isUpperLetter(c) == c \in UpperLetters
isLowerLetter(c) == c \in LowerLetters
isDigit(c) == c \in DigitChars
\* \w of a regular expression
isWordChar(c) == isUpperLetter(c) \/ isLowerLetter(c) \/ isDigit(c) \/ c = "_"
\* \s of a regular expression, over the characters the inputs are built from
isSpace(c) == c = " "

\* the letter-case tables of String.prototype.toLowerCase / toUpperCase on ASCII
LowerOf ==
  [c \in UpperLetters |->
     CHOOSE d \in LowerLetters :
       \E i \in 1..Len(UpperAlpha) :
         SubSeq(UpperAlpha, i, i) = c /\ SubSeq(LowerAlpha, i, i) = d]

UpperOf ==
  [c \in LowerLetters |->
     CHOOSE d \in UpperLetters :
       \E i \in 1..Len(LowerAlpha) :
         SubSeq(LowerAlpha, i, i) = c /\ SubSeq(UpperAlpha, i, i) = d]

lowerChar(c) == IF isUpperLetter(c) THEN LowerOf[c] ELSE c

upperChar(c) == IF isLowerLetter(c) THEN UpperOf[c] ELSE c

\* a for-loop over lo..hi that threads an accumulator through step; the range
\* is halved so that the evaluation depth stays logarithmic, and the comparison
\* makes the left half's value available before the right half starts
RECURSIVE FoldRange(_, _, _, _)
FoldRange(step(_, _), lo, hi, acc) ==
  IF lo > hi THEN acc
  ELSE IF lo = hi THEN step(acc, lo)
  ELSE LET mid == (lo + hi) \div 2
           left == FoldRange(step, lo, mid, acc)
       IN  IF left = left THEN FoldRange(step, mid + 1, hi, left) ELSE acc

toLowerCase(s) ==
  FoldRange(LAMBDA acc, i : acc \o lowerChar(charAt(s, i)), 1, Len(s), "")

toUpperCase(s) ==
  FoldRange(LAMBDA acc, i : acc \o upperChar(charAt(s, i)), 1, Len(s), "")

\* s.split(sep) for a non-empty string separator: matches are taken left to
\* right, each search resuming after the previous match
split(s, sep) ==
  With(FoldRange(
         LAMBDA acc, i :
           IF i >= acc.start /\ slice(s, i, i + Len(sep) - 1) = sep
             THEN [parts |-> Append(acc.parts, slice(s, acc.start, i - 1)),
                   start |-> i + Len(sep)]
             ELSE acc,
         1, Len(s), [parts |-> <<>>, start |-> 1]),
       LAMBDA scan : Append(scan.parts, slice(s, scan.start, Len(s))))

\* s.split(/[cls]+/): split on maximal runs of characters of the class cls
splitRuns(s, cls) ==
  With(FoldRange(
         LAMBDA acc, i :
           IF includes(cls, charAt(s, i))
             THEN IF acc.inRun
                    THEN [acc EXCEPT !.start = i + 1]
                    ELSE [parts |-> Append(acc.parts, slice(s, acc.start, i - 1)),
                          start |-> i + 1, inRun |-> TRUE]
             ELSE [acc EXCEPT !.inRun = FALSE],
         1, Len(s), [parts |-> <<>>, start |-> 1, inRun |-> FALSE]),
       LAMBDA scan : Append(scan.parts, slice(s, scan.start, Len(s))))

\* s.trim()
trim(s) ==
  IF \A i \in 1..Len(s) : isSpace(charAt(s, i)) THEN ""
  ELSE LET first == CHOOSE i \in 1..Len(s) :
                      ~isSpace(charAt(s, i)) /\ \A k \in 1..(i - 1) : isSpace(charAt(s, k))
           last == CHOOSE i \in 1..Len(s) :
                      ~isSpace(charAt(s, i)) /\ \A k \in (i + 1)..Len(s) : isSpace(charAt(s, k))
       IN  slice(s, first, last)

\* s.replace(/["']/g, '')
stripQuotes(s) ==
  FoldRange(LAMBDA acc, i : IF charAt(s, i) \in {"\"", "'"} THEN acc ELSE acc \o charAt(s, i),
            1, Len(s), "")

\* array.filter(P).length
CountIf(list, P(_)) == Cardinality({i \in 1..Len(list) : P(list[i])})

\* index of the first element of list that satisfies P, 0 if none: where a loop
\* that returns on its first match stops; P is not evaluated past the match
FirstIndex(list, P(_)) ==
  FoldRange(LAMBDA found, i : IF found # 0 THEN found ELSE IF P(list[i]) THEN i ELSE 0,
            1, Len(list), 0)

(***************************************************************************)
(* PhishingService.levenshteinDistance: the matrix is filled row by row;   *)
(* row i belongs to b's i-th character, column j to a's j-th character.    *)
(***************************************************************************)

Min3(x, y, z) == Min2(x, Min2(y, z))

\* the inner loop without the substitution term
levenshteinRowWithoutSubstitution(a, b, i, prev) ==
  FoldRange(
    LAMBDA cur, j :
      Append(cur, IF charAt(b, i) = charAt(a, j)
                    THEN prev[j]
                    ELSE Min2(cur[j] + 1, prev[j + 1] + 1)),
    1, Len(a), <<i>>)

\* the inner loop over j: cur holds matrix[i][0..j-1], prev is matrix[i-1]
levenshteinRow(a, b, i, prev) ==
  FoldRange(
    LAMBDA cur, j :
      Append(cur, IF charAt(b, i) = charAt(a, j)
                    THEN prev[j]
                    ELSE Min3(prev[j] + 1,       \* substitution
                              cur[j] + 1,        \* insertion
                              prev[j + 1] + 1)), \* deletion
    1, Len(a), <<i>>)

\* the distance with an empty second string costing nothing
levenshteinDistanceEmptySecondFree(a, b) ==
  IF Len(a) = 0 THEN Len(b)
  ELSE IF Len(b) = 0 THEN 0
  ELSE LET last == FoldRange(LAMBDA prev, i : levenshteinRow(a, b, i, prev),
                             1, Len(b), [j \in 1..(Len(a) + 1) |-> j - 1])
       IN  last[Len(a) + 1]

levenshteinDistance(a, b) ==
  IF Len(a) = 0 THEN Len(b)
  ELSE IF Len(b) = 0 THEN Len(a)
  ELSE LET last == FoldRange(LAMBDA prev, i : levenshteinRow(a, b, i, prev),
                             1, Len(b), [j \in 1..(Len(a) + 1) |-> j - 1])
       IN  last[Len(a) + 1]

(***************************************************************************)
(* PhishingService.analyzeDomainAndSender                                  *)
(***************************************************************************)

commonDomainsToSpoof ==
  << "paypal", "amazon", "apple", "microsoft", "google", "facebook", "netflix",
     "bank", "chase", "wellsfargo", "citi", "amex", "bankofamerica", "usbank",
     "dropbox", "linkedin", "twitter", "instagram", "docusign", "fedex", "ups",
     "usps", "dhl", "irs" >>

suspiciousTLDs ==
  << ".xyz", ".top", ".tk", ".club", ".online", ".info", ".site", ".gq", ".ml", ".cf" >>

\* /\d/.test(s)
hasDigit(s) == \E i \in 1..Len(s) : isDigit(charAt(s, i))

DomainResult(susp, desc, conf, contrib) ==
  [isSuspicious |-> susp, description |-> desc, confidence |-> conf,
   scoreContribution |-> contrib]

\* the part of analyzeDomainAndSender after the brand loop
suspiciousTLDCheck(domain) ==
  With(FirstIndex(suspiciousTLDs, LAMBDA tld : endsWith(domain, tld)),
       LAMBDA k :
         IF k # 0
           THEN DomainResult(TRUE,
                  "The sender domain uses the suspicious TLD \"" \o suspiciousTLDs[k]
                    \o "\" which is commonly used in phishing campaigns", 75, 25)
           ELSE DomainResult(FALSE, "", 0, 0))

NoReturn == DomainResult(FALSE, "", 0, 0)

\* the iteration without its number-substitution check
brandCheckWithoutDigitRule(domain, targetDomain) ==
  With(targetDomain \o ".com", LAMBDA target :
  With(domain # target /\ Len(domain) > 5, LAMBDA typoGuard :
    IF includes(domain, targetDomain) /\ includes(domain, "-")
      THEN DomainResult(TRUE,
             "The sender domain \"" \o domain
               \o "\" contains hyphens and appears to be impersonating " \o target,
             87, 32)
    ELSE IF /\ includes(domain, targetDomain)
            /\ includes(domain, ".")
            /\ ~endsWith(domain, "." \o targetDomain \o ".com")
            /\ ~endsWith(domain, "." \o targetDomain \o ".org")
            /\ ~endsWith(domain, "." \o targetDomain \o ".net")
      THEN DomainResult(TRUE,
             "The sender domain \"" \o domain \o "\" uses \"" \o targetDomain
               \o "\" as a subdomain, which is a common phishing tactic", 90, 35)
    ELSE IF typoGuard /\ levenshteinDistance(domain, target) = 1
      THEN DomainResult(TRUE,
             "The sender domain \"" \o domain \o "\" is nearly identical to \""
               \o target \o "\" with a single character difference", 89, 34)
    ELSE IF /\ typoGuard
            /\ With(split(domain, ".")[1], LAMBDA domainWithoutTLD :
                 \/ includes(domainWithoutTLD, "rn") \/ includes(domainWithoutTLD, "vv")
                 \/ includes(domainWithoutTLD, "l1") \/ includes(domainWithoutTLD, "0o"))
      THEN DomainResult(TRUE,
             "The sender domain \"" \o domain
               \o "\" appears to use visually similar characters to mimic \""
               \o target \o "\"", 86, 33)
    ELSE NoReturn))

\* one iteration of the brand loop of analyzeDomainAndSender: the result the
\* iteration returns, or NoReturn when the loop goes on to the next brand
brandCheck(domain, targetDomain) ==
  With(targetDomain \o ".com", LAMBDA target :
  With(domain # target /\ Len(domain) > 5, LAMBDA typoGuard :
    IF includes(domain, targetDomain) /\ includes(domain, "-")
      THEN DomainResult(TRUE,
             "The sender domain \"" \o domain
               \o "\" contains hyphens and appears to be impersonating " \o target,
             87, 32)
    ELSE IF /\ includes(domain, targetDomain)
            /\ includes(domain, ".")
            /\ ~endsWith(domain, "." \o targetDomain \o ".com")
            /\ ~endsWith(domain, "." \o targetDomain \o ".org")
            /\ ~endsWith(domain, "." \o targetDomain \o ".net")
      THEN DomainResult(TRUE,
             "The sender domain \"" \o domain \o "\" uses \"" \o targetDomain
               \o "\" as a subdomain, which is a common phishing tactic", 90, 35)
    ELSE IF typoGuard /\ hasDigit(domain) /\ levenshteinDistance(domain, target) <= 2
      THEN DomainResult(TRUE,
             "The sender domain \"" \o domain \o "\" appears to be a typosquat of \""
               \o target \o "\" using number substitution", 93, 38)
    ELSE IF typoGuard /\ levenshteinDistance(domain, target) = 1
      THEN DomainResult(TRUE,
             "The sender domain \"" \o domain \o "\" is nearly identical to \""
               \o target \o "\" with a single character difference", 89, 34)
    ELSE IF /\ typoGuard
            /\ With(split(domain, ".")[1], LAMBDA domainWithoutTLD :
                 \/ includes(domainWithoutTLD, "rn") \/ includes(domainWithoutTLD, "vv")
                 \/ includes(domainWithoutTLD, "l1") \/ includes(domainWithoutTLD, "0o"))
      THEN DomainResult(TRUE,
             "The sender domain \"" \o domain
               \o "\" appears to use visually similar characters to mimic \""
               \o target \o "\"", 86, 33)
    ELSE NoReturn))

analyzeDomainAndSender(sender, domain) ==
  IF domain = "" THEN DomainResult(FALSE, "", 0, 0)
  ELSE With(FirstIndex(commonDomainsToSpoof,
                       LAMBDA t : brandCheck(domain, t).isSuspicious),
            LAMBDA k :
              IF k # 0 THEN brandCheck(domain, commonDomainsToSpoof[k])
              ELSE suspiciousTLDCheck(domain))

(***************************************************************************)
(* PhishingService.analyzeLinks                                            *)
(***************************************************************************)

shortenerServices ==
  << "bit.ly", "tinyurl", "goo.gl", "t.co", "ow.ly", "is.gd", "tiny.cc", "cli.gs", "tr.im" >>

phishingUrlTerms ==
  << "confirm", "update", "verify", "secure", "alert", "invoice", "statement",
     "receipt", "document" >>

allDigits(s, from, n) ==
  from + n - 1 <= Len(s) /\ \A k \in from..(from + n - 1) : isDigit(charAt(s, k))

\* \d{1,3}\.\d{1,3}\.\d{1,3}\.\d{1,3} matches s at position p
ipQuadAt(s, p) ==
  \E n1 \in 1..3 : /\ allDigits(s, p, n1) /\ charAt(s, p + n1) = "."
    /\ \E n2 \in 1..3 : /\ allDigits(s, p + n1 + 1, n2)
         /\ charAt(s, p + n1 + 1 + n2) = "."
         /\ \E n3 \in 1..3 : /\ allDigits(s, p + n1 + n2 + 2, n3)
              /\ charAt(s, p + n1 + n2 + 2 + n3) = "."
              /\ allDigits(s, p + n1 + n2 + n3 + 3, 1)

\* the pattern with the s of the scheme required
ipPatternHttpsOnly(s) ==
  \E i \in 1..Len(s) : slice(s, i, i + 7) = "https://" /\ ipQuadAt(s, i + 8)

\* /https?:\/\/\d{1,3}\.\d{1,3}\.\d{1,3}\.\d{1,3}/.test(s)
ipPattern(s) ==
  \E i \in 1..Len(s) :
    \/ slice(s, i, i + 6) = "http://" /\ ipQuadAt(s, i + 7)
    \/ slice(s, i, i + 7) = "https://" /\ ipQuadAt(s, i + 8)

LinkResult(has, desc, sev, conf, contrib) ==
  [hasSuspiciousLinks |-> has, description |-> desc, severity |-> sev,
   confidence |-> conf, scoreContribution |-> contrib]

analyzeLinks(content) ==
  With(toLowerCase(content), LAMBDA contentLower :
    IF ipPattern(content)
      THEN LinkResult(TRUE,
             "Email contains links using IP addresses instead of domain names, which is highly suspicious",
             "High", 95, 28)
    ELSE With(FirstIndex(shortenerServices, LAMBDA x : includes(contentLower, x)),
              LAMBDA sh :
    IF sh # 0
      THEN LinkResult(TRUE,
             "Email contains shortened URLs (using " \o shortenerServices[sh]
               \o ") which can mask malicious destinations", "Medium", 80, 20)
    ELSE IF \/ includes(content, "%3A") \/ includes(content, "%2F")
            \/ includes(content, "%3F") \/ includes(content, "%3D")
            \/ includes(content, "%26")
      THEN LinkResult(TRUE,
             "Email contains URLs with encoded characters, which may be attempting to hide malicious destinations",
             "High", 85, 25)
    ELSE IF \/ includes(contentLower, "url=") \/ includes(contentLower, "redirect=")
            \/ includes(contentLower, "goto=") \/ includes(contentLower, "link=")
      THEN LinkResult(TRUE,
             "Email contains URLs with redirect parameters that could lead to malicious sites",
             "Medium", 75, 18)
    ELSE IF \/ includes(contentLower, "login.") \/ includes(contentLower, "account-verify")
            \/ includes(contentLower, "signin") \/ includes(contentLower, "secure.login")
      THEN LinkResult(TRUE,
             "Email contains links to login or account verification pages, which are frequently spoofed in phishing attacks",
             "Medium", 82, 22)
    ELSE With(FirstIndex(phishingUrlTerms, LAMBDA term :
                \/ includes(contentLower, "/" \o term)
                \/ includes(contentLower, term \o ".html")
                \/ includes(contentLower, term \o ".php")
                \/ includes(contentLower, term \o "?")),
              LAMBDA tm :
    IF tm # 0
      THEN LinkResult(TRUE,
             "Email contains links with suspicious terms like \"" \o phishingUrlTerms[tm]
               \o "\" which are common in phishing URLs", "Medium", 70, 16)
    ELSE LinkResult(FALSE, "", "Medium", 0, 0))))

(***************************************************************************)
(* PhishingService.checkForMismatchedUrls                                  *)
(***************************************************************************)

trustedDomains ==
  << "paypal.com", "amazon.com", "apple.com", "microsoft.com", "google.com",
     "facebook.com", "chase.com", "bankofamerica.com", "wellsfargo.com" >>

\* the body of the loop over the segments after each 'href='
segmentMismatch(segment) ==
  With(split(segment, ">"), LAMBDA byGt :
  With(stripQuotes(byGt[1]), LAMBDA linkPart :
  With(IF Len(byGt) >= 2 THEN split(byGt[2], "<")[1] ELSE "", LAMBDA textPart :
    \/ /\ includes(linkPart, "http") /\ includes(textPart, "http")
       /\ ~includes(linkPart, textPart) /\ ~includes(textPart, linkPart)
    \/ \E d \in 1..Len(trustedDomains) :
         includes(textPart, trustedDomains[d]) /\ ~includes(linkPart, trustedDomains[d]))))

checkForMismatchedUrls(content) ==
  IF ~includes(content, "href=") THEN FALSE
  ELSE With(split(content, "href="), LAMBDA segments :
         \E i \in 2..Len(segments) : segmentMismatch(segments[i]))

(***************************************************************************)
(* PhishingService.analyzeUrgencyAndPressure                               *)
(***************************************************************************)

highUrgencyPhrases ==
  << "account suspended", "account disabled", "account terminated", "security breach",
     "unauthorized access", "suspicious activity", "immediate action required",
     "within 24 hours", "account will be closed", "legal action", "overdue payment",
     "final notice", "urgent security issue" >>

mediumUrgencyPhrases ==
  << "verify now", "update immediately", "action required", "expires soon",
     "limited time", "urgent", "warning", "alert", "important notice",
     "time sensitive", "respond quickly", "don't delay" >>

lowUrgencyPhrases ==
  << "reminder", "please update", "attention", "important information",
     "please review", "soon", "before it's too late", "don't miss out" >>

startsWithAt(s, i, p) == slice(s, i, i + Len(p) - 1) = p

\* \d+ matches s at position p and is followed there by the string next
digitsThen(s, p, next) ==
  \E n \in 1..Len(s) : allDigits(s, p, n) /\ startsWithAt(s, p + n, next)

\* /(with)?in \d+ (hour|day|minute)/i.test(s), s in lower case
withinOrInPattern(s) ==
  \E i \in 1..Len(s) :
    /\ startsWithAt(s, i, "in ")
    /\ \/ digitsThen(s, i + 3, " hour") \/ digitsThen(s, i + 3, " day")
       \/ digitsThen(s, i + 3, " minute")

\* /within \d+ (hour|day|minute)/i.test(s), s in lower case
withinPattern(s) ==
  \E i \in 1..Len(s) :
    /\ startsWithAt(s, i, "within ")
    /\ \/ digitsThen(s, i + 7, " hour") \/ digitsThen(s, i + 7, " day")
       \/ digitsThen(s, i + 7, " minute")

\* /expires? (in|on) \d+/i.test(s), s in lower case
expiresPattern(s) ==
  \E i \in 1..Len(s) :
    \E head \in {"expire in ", "expire on ", "expires in ", "expires on "} :
      startsWithAt(s, i, head) /\ isDigit(charAt(s, i + Len(head)))

\* /before \w+ \d+/i.test(s), s in lower case
beforePattern(s) ==
  \E i \in 1..Len(s) :
    /\ startsWithAt(s, i, "before ")
    /\ \E n \in 1..Len(s) :
         /\ \A k \in (i + 7)..(i + 6 + n) : isWordChar(charAt(s, k))
         /\ charAt(s, i + 7 + n) = " "
         /\ isDigit(charAt(s, i + 8 + n))

\* /by (today|tomorrow)/i.test(s), s in lower case
byPattern(s) == includes(s, "by today") \/ includes(s, "by tomorrow")

deadlinePatterns(s) ==
  withinPattern(s) \/ expiresPattern(s) \/ beforePattern(s) \/ byPattern(s)

UrgencyResult(has, desc, sev, conf, contrib) ==
  [hasUrgencyTactics |-> has, description |-> desc, severity |-> sev,
   confidence |-> conf, scoreContribution |-> contrib]

analyzeUrgencyAndPressure(contentLower, subjectLower) ==
  LET hit(phrase) == includes(contentLower, phrase) \/ includes(subjectLower, phrase)
  IN  With(FirstIndex(highUrgencyPhrases, hit), LAMBDA hi :
      IF hi # 0
        THEN UrgencyResult(TRUE,
               "Email creates a high sense of urgency with phrases like \""
                 \o highUrgencyPhrases[hi] \o "\" to pressure immediate action",
               "High", 88, 25)
      ELSE With(FirstIndex(mediumUrgencyPhrases, hit), LAMBDA me :
      IF me # 0
        THEN UrgencyResult(TRUE,
               "Email creates urgency with phrases like \"" \o mediumUrgencyPhrases[me]
                 \o "\" to encourage quick action without proper verification",
               "Medium", 78, 18)
      ELSE With(FirstIndex(lowUrgencyPhrases, hit), LAMBDA lo :
      IF lo # 0
        THEN UrgencyResult(TRUE,
               "Email uses mild urgency tactics with phrases like \""
                 \o lowUrgencyPhrases[lo]
                 \o "\" which could be legitimate but warrants attention",
               "Low", 60, 10)
      ELSE IF \E text \in {contentLower, subjectLower} : deadlinePatterns(text)
        THEN UrgencyResult(TRUE,
               "Email creates urgency by setting a tight deadline for action, a common phishing tactic",
               "Medium", 75, 16)
      ELSE UrgencyResult(FALSE, "", "Medium", 0, 0))))

(***************************************************************************)
(* PhishingService.analyzeSensitiveInfoRequests                            *)
(***************************************************************************)

criticalInfoPhrases ==
  << "social security", "ssn", "tax id", "passport", "credit card", "card number",
     "cvv", "pin number", "mother's maiden name", "birth date", "full ssn",
     "bank account", "wire transfer", "routing number", "full card details" >>

highRiskPhrases ==
  << "verify your account", "confirm your information", "update your details",
     "verification required", "login details", "password reset", "security questions",
     "identity verification", "billing information", "payment details",
     "enter your password" >>

SensitiveResult(has, desc, conf, contrib) ==
  [requestsSensitiveInfo |-> has, description |-> desc, confidence |-> conf,
   scoreContribution |-> contrib]

analyzeSensitiveInfoRequests(contentLower) ==
  LET has(x) == includes(contentLower, x)
  IN  With(FirstIndex(criticalInfoPhrases, has), LAMBDA cr :
      IF cr # 0
        THEN SensitiveResult(TRUE,
               "Email requests extremely sensitive personal or financial information ("
                 \o criticalInfoPhrases[cr] \o ")", 95, 35)
      ELSE IF FirstIndex(highRiskPhrases, has) # 0
        THEN SensitiveResult(TRUE,
               "Email asks you to provide or verify account information or credentials",
               88, 28)
      ELSE IF /\ (has("log") \/ has("sign"))
              /\ (has("your account") \/ has("for security"))
              /\ (has("click") \/ has("link"))
        THEN SensitiveResult(TRUE,
               "Email asks you to log in to your account via a provided link, a common credential harvesting tactic",
               85, 26)
      ELSE IF (has("form") \/ has("fill")) /\ (has("information") \/ has("details"))
        THEN SensitiveResult(TRUE,
               "Email asks you to fill out a form with your information", 75, 20)
      ELSE SensitiveResult(FALSE, "", 0, 0))

(***************************************************************************)
(* PhishingService.analyzeAttachments                                      *)
(***************************************************************************)

criticalExtensions ==
  << ".exe", ".bat", ".vbs", ".js", ".scr", ".cmd", ".pif", ".msi", ".hta", ".dll", ".ps1" >>

suspiciousExtensions ==
  << ".zip", ".rar", ".7z", ".jar", ".iso", ".docm", ".xlsm", ".pptm" >>

executablePatterns ==
  << "setup", "install", "update.exe", "patch", "crack", "keygen", "activator" >>

AttachmentResult(has, desc, sev, conf, contrib) ==
  [hasSuspiciousAttachments |-> has, description |-> desc, severity |-> sev,
   confidence |-> conf, scoreContribution |-> contrib]

analyzeAttachments(contentLower) ==
  LET has(x) == includes(contentLower, x)
  IN  With(FirstIndex(criticalExtensions, has), LAMBDA ce :
      IF ce # 0
        THEN AttachmentResult(TRUE,
               "Email contains references to executable file attachments ("
                 \o criticalExtensions[ce] \o ") which can run malicious code",
               "High", 92, 32)
      ELSE With(FirstIndex(suspiciousExtensions, has), LAMBDA se :
      IF se # 0
        THEN AttachmentResult(TRUE,
               "Email contains references to compressed or macro-enabled document attachments ("
                 \o suspiciousExtensions[se] \o ") which may contain malicious code",
               "Medium", 82, 24)
      ELSE With(FirstIndex(executablePatterns, has), LAMBDA ep :
      IF ep # 0
        THEN AttachmentResult(TRUE,
               "Email contains references to potentially malicious executable files ("
                 \o executablePatterns[ep] \o ")", "High", 88, 30)
      ELSE IF /\ (has("attachment") \/ has("attached") \/ has("file"))
              /\ (has("open") \/ has("download") \/ has("enable"))
              /\ (has("now") \/ has("immediately") \/ has("must"))
        THEN AttachmentResult(TRUE,
               "Email pressures recipient to open attachments or enable content, which may enable malicious code",
               "Medium", 85, 26)
      ELSE AttachmentResult(FALSE, "", "Medium", 0, 0))))

(***************************************************************************)
(* PhishingService.analyzeImpersonationAttempt (the class defines it       *)
(* twice with the same body)                                               *)
(***************************************************************************)

impersonatedEntities ==
  << [name |-> "paypal",
      terms |-> <<"paypal payment", "paypal team", "paypal service", "paypal account">>],
     [name |-> "amazon",
      terms |-> <<"amazon order", "amazon team", "amazon prime", "amazon account",
                  "amazon shipping">>],
     [name |-> "apple",
      terms |-> <<"apple id", "icloud", "apple store", "apple support", "apple team">>],
     [name |-> "microsoft",
      terms |-> <<"microsoft account", "microsoft team", "office 365",
                  "microsoft security", "microsoft support">>],
     [name |-> "google",
      terms |-> <<"google account", "gmail team", "google security", "google drive",
                  "google support">>],
     [name |-> "facebook",
      terms |-> <<"facebook security", "facebook team", "facebook support",
                  "facebook account">>],
     [name |-> "netflix",
      terms |-> <<"netflix account", "netflix team", "netflix subscription",
                  "netflix payment">>],
     [name |-> "bank",
      terms |-> <<"bank account", "banking team", "account alert", "fraud department",
                  "bank statement">>],
     [name |-> "irs",
      terms |-> <<"tax refund", "tax return", "irs notice", "irs payment", "tax payment">>],
     [name |-> "shipping",
      terms |-> <<"package delivery", "delivery notification", "shipping update",
                  "track your package">>] >>

executiveTitles ==
  << "ceo", "president", "director", "manager", "supervisor", "executive", "hr",
     "human resources" >>

impersonationPhrases ==
  << "this is", "we are", "on behalf of", "representing", "from the desk of",
     "department of", "official notice", "support team", "security team", "service team" >>

ImpersonationResult(has, desc, sev, conf, contrib) ==
  [hasImpersonation |-> has, description |-> desc, severity |-> sev,
   confidence |-> conf, scoreContribution |-> contrib]

\* contentLower.split(phrase)[1]?.trim()?.split(' ')[0] || ''
wordAfter(contentLower, phrase) ==
  With(split(contentLower, phrase), LAMBDA parts :
    IF Len(parts) < 2 THEN "" ELSE split(trim(parts[2]), " ")[1])

analyzeImpersonationAttempt(contentLower, sender, domain) ==
  LET entityHit(entity) ==
        /\ \E t \in 1..Len(entity.terms) : includes(contentLower, entity.terms[t])
        /\ ~includes(domain, entity.name)
        /\ ~includes(sender, entity.name)
  IN  With(FirstIndex(impersonatedEntities, entityHit), LAMBDA en :
      IF en # 0
        THEN ImpersonationResult(TRUE,
               "Email appears to be from " \o impersonatedEntities[en].name
                 \o " but was sent from " \o domain, "High", 92, 30)
      ELSE With(FirstIndex(executiveTitles, LAMBDA title :
                  /\ includes(contentLower, title)
                  /\ \/ includes(contentLower, "urgent request")
                     \/ includes(contentLower, "immediate attention")),
                LAMBDA ti :
      IF ti # 0
        THEN ImpersonationResult(TRUE,
               "Email appears to impersonate a " \o executiveTitles[ti]
                 \o " or authority figure making an urgent request", "High", 85, 28)
      ELSE IF FirstIndex(impersonationPhrases, LAMBDA phrase :
                /\ includes(contentLower, phrase)
                /\ ~includes(domain, wordAfter(contentLower, phrase))) # 0
        THEN ImpersonationResult(TRUE,
               "Email contains phrases claiming to be from an organization that doesn't match the sender's domain",
               "Medium", 78, 22)
      ELSE ImpersonationResult(FALSE, "", "Medium", 0, 0)))

(***************************************************************************)
(* PhishingService.analyzeLanguageAndGrammar (the class defines it twice   *)
(* with the same body)                                                     *)
(***************************************************************************)

commonErrors ==
  << "acount", "verfy", "verifcation", "authetication", "immediatly", "securty",
     "infomation", "infromation", "confirmat", "suspicios", "kindly", "valuble" >>

genericGreetings ==
  << "dear user", "dear customer", "dear valued", "dear client",
     "attention user", "hello user", "valued customer" >>

\* /[!?]{2,}/.test(content)
repeatedPunctuation(content) ==
  \E i \in 1..(Len(content) - 1) :
    includes("!?", charAt(content, i)) /\ includes("!?", charAt(content, i + 1))

\* the filter predicate of allCapsWords
isAllCapsWord(w) == Len(w) > 3 /\ w = toUpperCase(w)

\* the filter predicate of mixedCaseWords; the loop starts at the second character
isMixedCaseWord(w) ==
  /\ Len(w) >= 4
  /\ \E i \in 2..Len(w) : charAt(w, i) = lowerChar(charAt(w, i))
  /\ \E i \in 2..Len(w) : charAt(w, i) = upperChar(charAt(w, i))

poorGrammarScore(content) ==
  With(toLowerCase(content), LAMBDA contentLower :
  With(splitRuns(content, " "), LAMBDA words :
  With(CountIf(words, isAllCapsWord), LAMBDA allCapsWords :
  With(CountIf(words, isMixedCaseWord), LAMBDA mixedCaseWords :
  With(CountIf(splitRuns(content, ".!?"),
               LAMBDA x : Len(trim(x)) > 0 /\ Len(split(x, " ")) < 3),
       LAMBDA shortSentences :
    (IF repeatedPunctuation(content) THEN 2 ELSE 0)
    + (IF allCapsWords > 1 THEN allCapsWords ELSE 0)
    + (IF mixedCaseWords > 0 THEN mixedCaseWords * 2 ELSE 0)
    + (IF shortSentences > 2 THEN shortSentences ELSE 0)
    + 3 * CountIf(commonErrors, LAMBDA e : includes(contentLower, e))
    + 4 * CountIf(genericGreetings, LAMBDA g : includes(contentLower, g)))))))

LanguageResult(has, desc, sev, conf, contrib) ==
  [hasIssues |-> has, description |-> desc, severity |-> sev,
   confidence |-> conf, scoreContribution |-> contrib]

analyzeLanguageAndGrammar(content) ==
  With(poorGrammarScore(content), LAMBDA score :
    IF score >= 10
      THEN LanguageResult(TRUE,
             "Email contains multiple grammar errors, unusual formatting, and generic greetings typical of phishing attempts",
             "Medium", 80, 18)
    ELSE IF score >= 5
      THEN LanguageResult(TRUE,
             "Email contains some grammar or spelling errors that are common in phishing messages",
             "Low", 65, 10)
    ELSE LanguageResult(FALSE, "", "Low", 0, 0))

(***************************************************************************)
(* JavaScript values passed to analyzeEmail: a string, or a value without  *)
(* string methods (the route only rejects falsy fields)                    *)
(***************************************************************************)

Str(s) == [type |-> "string", val |-> s]
Num(s) == [type |-> "number", val |-> s]
isString(v) == v.type = "string"

(***************************************************************************)
(* PhishingService.generateDemoResult                                      *)
(***************************************************************************)

Indicator(type, desc, sev, conf) ==
  [type |-> type, description |-> desc, severity |-> sev, confidence |-> conf]

\* the indicator pushed twice
pushTwiceIf(cond, x) == IF cond THEN <<x, x>> ELSE <<>>

\* indicators.push(x) when cond holds
pushIf(cond, x) == IF cond THEN <<x>> ELSE <<>>

\* the whole sender taken for the domain when it has no '@'
domainOfWholeSender(sender) ==
  With(split(sender, "@"), LAMBDA parts :
    IF Len(parts) >= 2 THEN toLowerCase(parts[2]) ELSE toLowerCase(sender))

\* sender.split('@')[1]?.toLowerCase() || ''
domainOf(sender) ==
  With(split(sender, "@"), LAMBDA parts :
    IF Len(parts) >= 2 THEN toLowerCase(parts[2]) ELSE "")

\* emailContent.length > 0 && emailContent.split(' ').length > 10
grammarGate(emailContent) ==
  Len(emailContent) > 0 /\ Len(split(emailContent, " ")) > 10

\* the results of the eight analyzer blocks of generateDemoResult; the language
\* analyzer only runs behind its gate
analyzerResults(emailContent, sender, subject) ==
  With(toLowerCase(emailContent), LAMBDA contentLower :
  With(toLowerCase(subject), LAMBDA subjectLower :
  With(domainOf(sender), LAMBDA domain :
    [spoofingResult |-> analyzeDomainAndSender(sender, domain),
     linkResult |-> analyzeLinks(emailContent),
     mismatched |-> checkForMismatchedUrls(emailContent),
     urgencyResult |-> analyzeUrgencyAndPressure(contentLower, subjectLower),
     sensitiveInfoResult |-> analyzeSensitiveInfoRequests(contentLower),
     attachmentResult |-> analyzeAttachments(contentLower),
     impersonationResult |-> analyzeImpersonationAttempt(contentLower, sender, domain),
     languageResult |-> IF grammarGate(emailContent)
                          THEN analyzeLanguageAndGrammar(emailContent)
                          ELSE LanguageResult(FALSE, "", "Low", 0, 0)])))

\* the indicators array after the eight blocks
indicatorsOf(r) ==
  pushIf(r.spoofingResult.isSuspicious,
         Indicator("Spoofed Domain", r.spoofingResult.description, "High",
                   r.spoofingResult.confidence))
  \o pushIf(r.linkResult.hasSuspiciousLinks,
         Indicator("Suspicious Link", r.linkResult.description, r.linkResult.severity,
                   r.linkResult.confidence))
  \o pushIf(r.mismatched,
         Indicator("Mismatched URLs",
                   "Email contains links where the displayed text doesn't match the actual URL",
                   "High", 92))
  \o pushIf(r.urgencyResult.hasUrgencyTactics,
         Indicator("Urgency or Pressure", r.urgencyResult.description,
                   r.urgencyResult.severity, r.urgencyResult.confidence))
  \o pushIf(r.sensitiveInfoResult.requestsSensitiveInfo,
         Indicator("Request for Sensitive Information", r.sensitiveInfoResult.description,
                   "High", r.sensitiveInfoResult.confidence))
  \o pushIf(r.attachmentResult.hasSuspiciousAttachments,
         Indicator("Suspicious Attachment", r.attachmentResult.description,
                   r.attachmentResult.severity, r.attachmentResult.confidence))
  \o pushIf(r.impersonationResult.hasImpersonation,
         Indicator("Impersonation Attempt", r.impersonationResult.description,
                   r.impersonationResult.severity, r.impersonationResult.confidence))
  \o pushIf(r.languageResult.hasIssues,
         Indicator("Grammar Errors", r.languageResult.description,
                   r.languageResult.severity, r.languageResult.confidence))

\* phishingScore after the eight blocks
accumulatedScore(r) ==
  (IF r.spoofingResult.isSuspicious THEN r.spoofingResult.scoreContribution ELSE 0)
  + (IF r.linkResult.hasSuspiciousLinks THEN r.linkResult.scoreContribution ELSE 0)
  + (IF r.mismatched THEN 28 ELSE 0)
  + (IF r.urgencyResult.hasUrgencyTactics THEN r.urgencyResult.scoreContribution ELSE 0)
  + (IF r.sensitiveInfoResult.requestsSensitiveInfo
       THEN r.sensitiveInfoResult.scoreContribution ELSE 0)
  + (IF r.attachmentResult.hasSuspiciousAttachments
       THEN r.attachmentResult.scoreContribution ELSE 0)
  + (IF r.impersonationResult.hasImpersonation
       THEN r.impersonationResult.scoreContribution ELSE 0)
  + (IF r.languageResult.hasIssues THEN r.languageResult.scoreContribution ELSE 0)

\* indicators.filter(ind => ind.severity === 'High')
highRiskIndicators(indicators) == SelectSeq(indicators, LAMBDA ind : ind.severity = "High")

\* the penalty added only from three high-risk indicators on
highRiskBonusFromThree(indicators, phishingScore) ==
  IF Len(highRiskIndicators(indicators)) >= 3 THEN phishingScore + 10 ELSE phishingScore

\* the penalty for multiple high-risk factors
highRiskBonus(indicators, phishingScore) ==
  IF Len(highRiskIndicators(indicators)) >= 2 THEN phishingScore + 10 ELSE phishingScore

\* the penalty for urgency together with a request for sensitive information
comboBonus(r, phishingScore) ==
  IF r.urgencyResult.hasUrgencyTactics /\ r.sensitiveInfoResult.requestsSensitiveInfo
    THEN phishingScore + 15 ELSE phishingScore

\* the total left as it is
scoreUncapped(phishingScore) == phishingScore

\* Math.min(Math.round(phishingScore), 100); rounding leaves the integer total
\* as it is
capScore(phishingScore) == Min2(phishingScore, 100)

\* the low score without the 1 added to the draw
lowScoreFromZero(indicators, phishingScore, random15) ==
  IF Len(indicators) = 0 THEN random15 ELSE phishingScore

\* the low score given when nothing suspicious was found; random15 is the value
\* of Math.floor(Math.random() * 15)
lowScore(indicators, phishingScore, random15) ==
  IF Len(indicators) = 0 THEN random15 + 1 ELSE phishingScore

\* the random draw added to every score
generateDemoResultJittered(emailContent, sender, subject, random15) ==
  With(analyzerResults(emailContent, sender, subject), LAMBDA r :
  With(indicatorsOf(r), LAMBDA indicators :
    [success |-> TRUE,
     phishingScore |->
       lowScore(indicators,
                capScore(comboBonus(r, highRiskBonus(indicators, accumulatedScore(r))))
                  + random15,
                random15),
     indicators |-> indicators]))

\* generateDemoResult on string arguments
generateDemoResult(emailContent, sender, subject, random15) ==
  With(analyzerResults(emailContent, sender, subject), LAMBDA r :
  With(indicatorsOf(r), LAMBDA indicators :
    [success |-> TRUE,
     phishingScore |->
       lowScore(indicators,
                capScore(comboBonus(r, highRiskBonus(indicators, accumulatedScore(r)))),
                random15),
     indicators |-> indicators]))

(***************************************************************************)
(* FraudService.  A JavaScript object is a function from its property      *)
(* names to their values; a property the object lacks reads as undefined.  *)
(* A check closure is named by the id of the rule it was constructed for.  *)
(***************************************************************************)

has(obj, f) == f \in DOMAIN obj

\* truthiness of a boolean-or-undefined property
truthy(obj, f) == has(obj, f) /\ obj[f] = TRUE

\* the default only for a property the object lacks
numberOrUndefinedOnly(obj, f, dflt) == IF has(obj, f) THEN obj[f] ELSE dflt

\* obj[f] || dflt for a number-or-undefined property
numberOr(obj, f, dflt) == IF has(obj, f) /\ obj[f] # 0 THEN obj[f] ELSE dflt

\* obj[f] !== false
isNotFalse(obj, f) == ~has(obj, f) \/ obj[f] # FALSE

\* obj[f] === true
isTrue(obj, f) == has(obj, f) /\ obj[f] = TRUE

\* the rule table with a default threshold of 5
constructorRulesThresholdFive ==
  << [id |-> "multiple-attempts", name |-> "Multiple Failed Attempts",
      description |-> "Flag accounts with multiple failed verification attempts",
      enabled |-> TRUE, threshold |-> 5, check |-> "check:multiple-attempts"],
     [id |-> "ip-anomaly", name |-> "IP Address Anomaly",
      description |-> "Detect access from unusual locations or IP addresses",
      enabled |-> TRUE, check |-> "check:ip-anomaly"],
     [id |-> "unusual-timing", name |-> "Unusual Access Timing",
      description |-> "Detect access at unusual hours or patterns",
      enabled |-> TRUE, check |-> "check:unusual-timing"],
     [id |-> "identity-mismatch", name |-> "Identity Mismatch",
      description |-> "Detect when submitted identity information differs from records",
      enabled |-> TRUE, check |-> "check:identity-mismatch"],
     [id |-> "rapid-changes", name |-> "Rapid Profile Changes",
      description |-> "Flag accounts with frequent or unusual profile changes",
      enabled |-> FALSE, check |-> "check:rapid-changes"] >>

\* the rule table built by the constructor
constructorRules ==
  << [id |-> "multiple-attempts", name |-> "Multiple Failed Attempts",
      description |-> "Flag accounts with multiple failed verification attempts",
      enabled |-> TRUE, threshold |-> 3, check |-> "check:multiple-attempts"],
     [id |-> "ip-anomaly", name |-> "IP Address Anomaly",
      description |-> "Detect access from unusual locations or IP addresses",
      enabled |-> TRUE, check |-> "check:ip-anomaly"],
     [id |-> "unusual-timing", name |-> "Unusual Access Timing",
      description |-> "Detect access at unusual hours or patterns",
      enabled |-> TRUE, check |-> "check:unusual-timing"],
     [id |-> "identity-mismatch", name |-> "Identity Mismatch",
      description |-> "Detect when submitted identity information differs from records",
      enabled |-> TRUE, check |-> "check:identity-mismatch"],
     [id |-> "rapid-changes", name |-> "Rapid Profile Changes",
      description |-> "Flag accounts with frequent or unusual profile changes",
      enabled |-> FALSE, check |-> "check:rapid-changes"] >>

\* this.rules.find(rule => rule.id === id); the empty object stands for undefined
getRuleById(table, id) ==
  LET k == FirstIndex(table, LAMBDA r : has(r, "id") /\ r.id = id)
  IN  IF k # 0 THEN table[k] ELSE << >>

\* the predicates with the threshold fixed at its default
checkDefaultThreshold(c, data, table) ==
  CASE c = "check:multiple-attempts" -> numberOr(data, "failedAttempts", 0) >= 3
    [] c = "check:ip-anomaly" -> isTrue(data, "ipAnomaly")
    [] c = "check:unusual-timing" -> isTrue(data, "unusualTiming")
    [] c = "check:identity-mismatch" -> isTrue(data, "identityMismatch")
    [] c = "check:rapid-changes" -> isTrue(data, "rapidChanges")
    [] OTHER -> FALSE

\* rule.check(data) for the closure named c, evaluated against the table
check(c, data, table) ==
  CASE c = "check:multiple-attempts" ->
         numberOr(data, "failedAttempts", 0)
           >= numberOr(getRuleById(table, "multiple-attempts"), "threshold", 3)
    [] c = "check:ip-anomaly" -> isTrue(data, "ipAnomaly")
    [] c = "check:unusual-timing" -> isTrue(data, "unusualTiming")
    [] c = "check:identity-mismatch" -> isTrue(data, "identityMismatch")
    [] c = "check:rapid-changes" -> isTrue(data, "rapidChanges")
    [] OTHER -> FALSE

\* ({ check, ...rule }) => rule
withoutCheck(rule) == [f \in DOMAIN rule \ {"check"} |-> rule[f]]

getRules(table) == [k \in 1..Len(table) |-> withoutCheck(table[k])]

\* { check: existing.check, ...updatedRule }
mergeRuleCallerWins(updatedRule, existing) ==
  [f \in DOMAIN updatedRule \cup {"check"} |->
     IF f \in DOMAIN updatedRule THEN updatedRule[f] ELSE existing[f]]

\* { ...updatedRule, check: existing.check }
mergeRule(updatedRule, existing) ==
  [f \in DOMAIN updatedRule \cup {"check"} |->
     IF f = "check" THEN existing.check ELSE updatedRule[f]]

\* this.rules.findIndex(r => r.id === updatedRule.id) on the table t, 1-based,
\* 0 for -1; an entry without an id matches no rule
findIndex(t, updatedRule) ==
  IF ~has(updatedRule, "id") THEN 0
  ELSE With({i \in 1..Len(t) : t[i].id = updatedRule.id}, LAMBDA hits :
         IF hits = {} THEN 0 ELSE Least(hits))

\* the entries of updatedRules for which findIndex returns an index of the table
matchedEntries(table, updatedRules) ==
  CountIf(updatedRules, LAMBDA updatedRule : findIndex(table, updatedRule) # 0)

\* the callback of updatedRules.forEach on one entry
updateRule(t, updatedRule) ==
  With(findIndex(t, updatedRule), LAMBDA existingRuleIndex :
    IF existingRuleIndex # 0
      THEN [t EXCEPT ![existingRuleIndex] = mergeRule(updatedRule, t[existingRuleIndex])]
      ELSE t)

\* updatedRules.forEach(...) from the k-th entry on
RECURSIVE forEachFrom(_, _, _)
forEachFrom(t, updatedRules, k) ==
  IF k > Len(updatedRules) THEN t
  ELSE forEachFrom(updateRule(t, updatedRules[k]), updatedRules, k + 1)

\* the table when an entry that matches no rule is pushed as a new rule
updateRulesAppending(table, updatedRules) ==
  FoldRange(
    LAMBDA t, k :
      IF findIndex(t, updatedRules[k]) # 0
        THEN updateRule(t, updatedRules[k])
        ELSE Append(t, mergeRule(updatedRules[k], [check |-> "check:none"])),
    1, Len(updatedRules), table)

\* the table after updatedRules.forEach(...)
updateRules(table, updatedRules) == forEachFrom(table, updatedRules, 1)

\* the ids of all rules whose predicate matches, enabled or not
triggeredIgnoringEnabled(table, data) ==
  FoldRange(
    LAMBDA acc, k :
      IF check(table[k].check, data, table) THEN Append(acc, table[k].id) ELSE acc,
    1, Len(table), << >>)

\* the triggeredRules array after this.rules.forEach(...)
triggered(table, data) ==
  FoldRange(
    LAMBDA acc, k :
      IF truthy(table[k], "enabled") /\ check(table[k].check, data, table)
        THEN Append(acc, table[k].id) ELSE acc,
    1, Len(table), << >>)

detectFraudHighFromTwo(table, data) ==
  LET triggeredRules == triggered(table, data)
      severity == IF Len(triggeredRules) >= 2 THEN "High"
                  ELSE IF Len(triggeredRules) > 0 THEN "Medium"
                  ELSE "Low"
  IN  [isFraudulent |-> Len(triggeredRules) > 0, severity |-> severity,
       triggeredRules |-> triggeredRules]

detectFraud(table, data) ==
  LET triggeredRules == triggered(table, data)
      severity == IF Len(triggeredRules) > 2 THEN "High"
                  ELSE IF Len(triggeredRules) > 0 THEN "Medium"
                  ELSE "Low"
  IN  [isFraudulent |-> Len(triggeredRules) > 0, severity |-> severity,
       triggeredRules |-> triggeredRules]

(***************************************************************************)
(* PhishingService.analyzeEmail and callExternalPhishingApi                *)
(***************************************************************************)

\* the TypeError generateDemoResult raises before any analyzer runs when an
\* argument has no string methods; "" when it raises none
generateDemoResultError(emailContent, sender, subject) ==
  IF ~isString(emailContent) THEN "emailContent.toLowerCase is not a function"
  ELSE IF ~isString(subject) THEN "subject.toLowerCase is not a function"
  ELSE IF ~isString(sender) THEN "sender.split is not a function"
  ELSE ""

\* a failure record that keeps an indicator
failureResultWithIndicator(message) ==
  [success |-> FALSE, phishingScore |-> 0,
   indicators |-> <<Indicator("Grammar Errors", message, "Low", 0)>>, error |-> message]

\* the record built by the catch block of analyzeEmail
failureResult(message) ==
  [success |-> FALSE, phishingScore |-> 0, indicators |-> << >>, error |-> message]

\* generateDemoResult called outside any try block, on arguments coerced to
\* strings
localResultUncaught(emailContent, sender, subject, random15) ==
  generateDemoResult(emailContent.val, sender.val, subject.val, random15)

\* generateDemoResult as called from analyzeEmail's try block: its value, or
\* the catch block's record when it throws
localResult(emailContent, sender, subject, random15) ==
  With(generateDemoResultError(emailContent, sender, subject), LAMBDA message :
    IF message # "" THEN failureResult(message)
    ELSE generateDemoResult(emailContent.val, sender.val, subject.val, random15))

\* the remote error handed on in a failure record
callExternalPhishingApiPropagates(emailContent, sender, subject, remote, random15) ==
  IF remote.ok
    THEN [success |-> TRUE, phishingScore |-> remote.data.score,
          indicators |-> remote.data.indicators]
    ELSE failureResult(remote.error)

\* remote is the outcome of axios.post: [ok |-> FALSE, error |-> message] when
\* the call fails, [ok |-> TRUE, data |-> response.data] when it resolves
callExternalPhishingApi(emailContent, sender, subject, remote, random15) ==
  IF remote.ok
    THEN [success |-> TRUE, phishingScore |-> remote.data.score,
          indicators |-> remote.data.indicators]
    ELSE localResult(emailContent, sender, subject, random15)

\* keySet: process.env.PHISHING_API_KEY is set
analyzeEmail(emailContent, sender, subject, keySet, remote, random15) ==
  IF keySet
    THEN callExternalPhishingApi(emailContent, sender, subject, remote, random15)
    ELSE localResult(emailContent, sender, subject, random15)

(***************************************************************************)
(* MemStorage.  A Map is the sequence of its values in insertion order;    *)
(* every value carries its key in the field id.  Timestamps are left out.  *)
(***************************************************************************)

\* map.set(value.id, value): a value under a key the map has replaces the
\* value in place, a value under a new key goes to the end
mapSet(map, value) ==
  IF \E k \in 1..Len(map) : map[k].id = value.id
    THEN [k \in 1..Len(map) |-> IF map[k].id = value.id THEN value ELSE map[k]]
    ELSE Append(map, value)

\* { ...record, id }
withId(record, id) ==
  [f \in DOMAIN record \cup {"id"} |-> IF f = "id" THEN id ELSE record[f]]

\* the counter left as it is
postIncrementStuck(counter) == counter

\* the counter after const id = this.counter++
postIncrement(counter) == counter + 1

\* the maps and counters as the constructor sets them before the sample data
emptyStore ==
  [fraudAlerts |-> << >>, activityLogs |-> << >>, phishingEmails |-> << >>,
   phishingIndicators |-> << >>,
   fraudAlertIdCounter |-> 1, activityLogIdCounter |-> 1,
   phishingEmailIdCounter |-> 1, phishingIndicatorIdCounter |-> 1]

createFraudAlert(s, alert) ==
  [s EXCEPT !.fraudAlertIdCounter = postIncrement(@),
            !.fraudAlerts = mapSet(@, withId(alert, s.fraudAlertIdCounter))]

createActivityLog(s, log) ==
  [s EXCEPT !.activityLogIdCounter = postIncrement(@),
            !.activityLogs = mapSet(@, withId(log, s.activityLogIdCounter))]

\* the stored email starts with an empty indicators array
createPhishingEmail(s, email) ==
  [s EXCEPT !.phishingEmailIdCounter = postIncrement(@),
            !.phishingEmails =
               mapSet(@, [f \in DOMAIN email \cup {"id", "indicators"} |->
                            IF f = "id" THEN s.phishingEmailIdCounter
                            ELSE IF f = "indicators" THEN << >>
                            ELSE email[f]])]

createPhishingIndicator(s, indicator) ==
  [s EXCEPT !.phishingIndicatorIdCounter = postIncrement(@),
            !.phishingIndicators = mapSet(@, withId(indicator, s.phishingIndicatorIdCounter))]

\* Array.from(this.phishingIndicators.values()).filter(...)
getPhishingIndicatorsByEmailId(s, emailId) ==
  SelectSeq(s.phishingIndicators, LAMBDA indicator : indicator.emailId = emailId)

\* this.phishingEmails.get(id), << >> for undefined
getEmail(s, id) == SelectSeq(s.phishingEmails, LAMBDA email : email.id = id)

\* email.indicators = indicators in getPhishingEmailById: the assignment is to
\* the object the map holds
assignIndicators(s, id, indicators) ==
  [s EXCEPT !.phishingEmails =
     [k \in 1..Len(s.phishingEmails) |->
        IF s.phishingEmails[k].id = id
          THEN [s.phishingEmails[k] EXCEPT !.indicators = indicators]
          ELSE s.phishingEmails[k]]]

AlertData(alertType, details, severity, status) ==
  [userId |-> 1, alertType |-> alertType, details |-> details, severity |-> severity,
   status |-> status]

LogData(activityType, details, status) ==
  [userId |-> 1, activityType |-> activityType, details |-> details, status |-> status]

EmailData(subject, sender, recipient, content, phishingScore, status) ==
  [userId |-> 1, subject |-> subject, sender |-> sender, recipient |-> recipient,
   content |-> content, phishingScore |-> phishingScore, status |-> status]

IndicatorData(emailId, type, description, severity, confidence) ==
  [emailId |-> emailId, type |-> type, description |-> description,
   severity |-> severity, confidence |-> confidence]

\* the alerts and activity logs initializeSampleData creates
sampleAlerts ==
  << AlertData("Suspicious IP",
               "Multiple failed verification attempts from IP 192.168.1.254",
               "High", "Flagged"),
     AlertData("Unusual Access Pattern",
               "Unusual access pattern detected from unrecognized device",
               "Medium", "Under Review"),
     AlertData("Identity Mismatch",
               "Submitted identity information doesn't match records",
               "High", "Flagged") >>

sampleLogs ==
  << LogData("Photo Recognition", "Identity verification for James Wilson", "Successful"),
     LogData("Fraud Alert",
             "Multiple failed verification attempts from IP 192.168.1.254", "Flagged"),
     LogData("Suspicious Activity",
             "Unusual access pattern detected from unrecognized device", "Under Review") >>

\* the emails addSamplePhishingEmails creates, each with its indicators, and
\* the two activity logs it ends with
sampleEmails ==
  << [email |-> EmailData("Urgent: Your Account Has Been Compromised",
                          "security-team@bankofamerica-secure.com", "user@example.com",
                          "Dear valued customer, We have detected suspicious activity on your account. Please verify your account immediately by clicking on the link below to avoid account suspension. [LINK: https://bank0famerica-secure.com/verify]",
                          92, "Analyzed"),
      indicators |->
        << Indicator("Spoofed Domain",
                     "Domain closely resembles Bank of America but is not legitimate (bankofamerica-secure.com)",
                     "High", 95),
           Indicator("Suspicious Link",
                     "Link directs to a fraudulent domain (bank0famerica-secure.com with a zero instead of 'o')",
                     "High", 98),
           Indicator("Urgency or Pressure",
                     "Email creates false urgency to pressure user into action",
                     "Medium", 90) >>],
     [email |-> EmailData("Your Amazon Order #8752941 Has Shipped",
                          "orders@amazon-shipments.net", "user@example.com",
                          "Your Amazon order has shipped. There was a problem with your payment method. To ensure delivery, please update your payment information by clicking here: [LINK: https://amaz0n-account-verify.net/update]",
                          87, "Quarantined"),
      indicators |->
        << Indicator("Spoofed Domain",
                     "Email not sent from official Amazon domain (amazon-shipments.net)",
                     "High", 92),
           Indicator("Mismatched URLs",
                     "Displayed link text doesn't match destination URL", "High", 95) >>],
     [email |-> EmailData("Your Microsoft 365 subscription will expire soon",
                          "renewal@microsoft365-subscription.com", "user@example.com",
                          "Your Microsoft 365 subscription is about to expire. To avoid service interruption, please download the attached document and follow the renewal instructions. [ATTACHMENT: RenewalInstructions.doc]",
                          78, "Analyzed"),
      indicators |->
        << Indicator("Suspicious Attachment",
                     "Email contains a suspicious document attachment with potential macros",
                     "High", 88),
           Indicator("Spoofed Domain", "Email not sent from official Microsoft domain",
                     "Medium", 85) >>] >>

samplePhishingLogs ==
  << LogData("Phishing Detection",
             "High-risk phishing email detected from spoofed Bank of America domain",
             "Flagged"),
     LogData("Phishing Detection",
             "Suspicious email with malicious attachment quarantined", "Quarantined") >>

\* { emailId, ...indicator } for an indicator of an analysis
indicatorFor(emailId, indicator) ==
  IndicatorData(emailId, indicator.type, indicator.description, indicator.severity,
                indicator.confidence)

\* one sample email and its indicators stored: the indicators get the id the
\* email was given
addSampleEmail(s, sample) ==
  FoldRange(LAMBDA t, k :
              createPhishingIndicator(t, indicatorFor(s.phishingEmailIdCounter,
                                                      sample.indicators[k])),
            1, Len(sample.indicators), createPhishingEmail(s, sample.email))

\* the store when the constructor and the sample-data calls it starts have run
constructorStore ==
  With(FoldRange(LAMBDA s, k : createFraudAlert(s, sampleAlerts[k]),
                 1, Len(sampleAlerts), emptyStore), LAMBDA withAlerts :
  With(FoldRange(LAMBDA s, k : createActivityLog(s, sampleLogs[k]),
                 1, Len(sampleLogs), withAlerts), LAMBDA withLogs :
  With(FoldRange(LAMBDA s, k : addSampleEmail(s, sampleEmails[k]),
                 1, Len(sampleEmails), withLogs), LAMBDA withEmails :
    FoldRange(LAMBDA s, k : createActivityLog(s, samplePhishingLogs[k]),
              1, Len(samplePhishingLogs), withEmails))))

(***************************************************************************)
(* Inputs                                                                  *)
(***************************************************************************)

\* sentences an email body is assembled from
Parts ==
  << "Go to http://10.0.0.1/x. ",
     "Account suspended! ",
     "Send your cvv. ",
     "Open invoice.exe now. ",
     "The paypal team: <a href=\"http://e.io\">paypal.com</a> ",
     "Dear customer, kindly verfy it. ",
     "Reminder: see bit.ly/q soon. ",
     "Please fill the form with your details. " >>

\* how many of the sentences of Parts a body may draw on
NumParts == 7

\* the sentences with index in chosen, in the order of Parts
bodyOf(chosen) ==
  FoldRange(LAMBDA acc, i : IF i \in chosen THEN acc \o Parts[i] ELSE acc,
            1, Len(Parts), "")

ExampleBody ==
  "Your account will be suspended in 24 hours. Please verify your account by entering your password."

\* bodies with a link to a numeric address next to the other link patterns,
\* and one with an encoded link alone
LinkBodies ==
  { "Log in at http://192.168.1.1/login",
    "See https://192.168.1.1/a?url=b%2Fc now",
    "Sign in: http://172.16.0.9/signin/verify or tinyurl.com/z",
    "See example.com/a?next=b%2Fc now" }

\* bodies of more than ten words with their signals counted by hand as a reader
\* counts them: repeated '!' or '?', all-caps words longer than 3, words that
\* mix capital and small letters, sentences of fewer than 3 words, listed
\* misspellings, generic greetings
GrammarCase(content, punct, caps, mixed, short, errors, greetings) ==
  [content |-> content, punct |-> punct, caps |-> caps, mixed |-> mixed, short |-> short,
   errors |-> errors, greetings |-> greetings]

GrammarCases ==
  { GrammarCase("dear user we URGENT need you to call us back today ok",
                0, 1, 0, 0, 0, 1),
    GrammarCase("dear user we URGENT need you to call us back TODAY ok",
                0, 2, 0, 0, 0, 1),
    GrammarCase("kindly CliCk here so we can help you with it right away ok",
                0, 0, 1, 0, 1, 0),
    GrammarCase("Go. Do. Be. we kindly need you to call us back today ok",
                0, 0, 0, 3, 1, 0),
    GrammarCase("kindly call us today, we will wait here until then, many thanks friend",
                0, 0, 0, 0, 1, 0) }

Bodies == {bodyOf(chosen) : chosen \in SUBSET (1..Min2(NumParts, Len(Parts)))}

Request(content, sender, subject) ==
  [content |-> content, sender |-> sender, subject |-> subject]

Requests ==
  {Request(Str(c), Str(x), Str("Hello")) :
     c \in Bodies, x \in {"amy@a.org", "support@paypa1.com"}}
  \cup {Request(Str(c), Str("amy@a.org"), Str("Final notice")) : c \in Bodies}
  \cup {Request(Str(ExampleBody), Str(x), Str("Hello")) :
          x \in {"amy@a.org", "security@bankofamerica-secure.com", "noreply",
                 "paypa1.com", "it@paypal1.com", "it@wel1sfargo.com",
                 "it@g00gle.com", "it@internal-google.com", "user@paypal.com",
                 "user@irs.com"}}
  \cup {Request(Str(c), Str("amy@a.org"), Str("Hello")) : c \in LinkBodies}
  \cup {Request(Str(c.content), Str("amy@a.org"), Str("Hello")) : c \in GrammarCases}
  \cup {Request(Str(ExampleBody), Str("amy@a.org"), Num("42")),
        Request(Num("42"), Str("amy@a.org"), Str("Hello"))}

\* the requests that are also analysed with an API key configured
RemoteRequests ==
  {r \in Requests : r.content \in {Str(ExampleBody), Str(""), Str(Parts[1]), Num("42")}}

\* what the remote scoring service may answer
RemoteIndicator ==
  Indicator("Suspicious Link", "reported by the remote service", "Medium", 50)

RemoteOutcomes ==
  { [ok |-> FALSE, error |-> "Request failed with status code 500"],
    [ok |-> TRUE, data |-> [score |-> 0, indicators |-> << >>]],
    [ok |-> TRUE, data |-> [score |-> 0, indicators |-> <<RemoteIndicator>>]],
    [ok |-> TRUE, data |-> [score |-> 64, indicators |-> <<RemoteIndicator>>]] }

\* the values of Math.floor(Math.random() * 15)
Random15 == 0..14

(***************************************************************************)
(* State                                                                   *)
(***************************************************************************)

VARIABLES
  rules,       \* FraudService.rules
  fraudData,   \* the event record of the last detectFraud call
  fraudReply,  \* what the last FraudService call returned; for updateRules also
               \* how many entries the call carried and how many found their rule
  apiKey,      \* process.env.PHISHING_API_KEY is set
  request,     \* the arguments of the analyzeEmail call; the three strings of
               \* the levenshteinDistance calls
  remoteCall,  \* the outcome of the call to the remote service, if one was made
  reply,       \* what analyzeEmail returned; what the levenshteinDistance calls
               \* returned
  inflight,    \* the fraud requests the server has received, each with the
               \* position of its route handler
  tables,      \* FraudService.rules at construction and at the return of each
               \* updateRules call, in order
  store        \* the MemStorage instance: its maps and id counters

vars == <<rules, fraudData, fraudReply, apiKey, request, remoteCall, reply,
          inflight, tables, store>>

fraudVars == <<rules, fraudData, fraudReply>>
phishingVars == <<apiKey, request, remoteCall, reply>>
serverVars == <<inflight, tables, store>>

NoCall == [op |-> "none"]

(***************************************************************************)
(* The phishing service: one analyzeEmail call on each input               *)
(***************************************************************************)

InitFraudIdle ==
  /\ rules = constructorRules
  /\ fraudData = << >>
  /\ fraudReply = NoCall

\* no request has reached the fraud routes
InitServerIdle ==
  /\ inflight = << >>
  /\ tables = <<constructorRules>>
  /\ store = constructorStore

InitPhishing ==
  /\ request \in Requests
  /\ apiKey \in (IF request \in RemoteRequests THEN BOOLEAN ELSE {FALSE})
  /\ remoteCall = NoCall
  /\ reply = NoCall
  /\ InitFraudIdle
  /\ InitServerIdle

\* Math.random is called only when generateDemoResult produced no indicator:
\* on every other path one draw stands for all
callsRandom(result) == result.success /\ Len(result.indicators) = 0

\* analyzeEmail without an API key
AnalyzeEmailLocal ==
  /\ reply = NoCall
  /\ ~apiKey
  /\ \E first \in {analyzeEmail(request.content, request.sender, request.subject,
                                FALSE, NoCall, 0)} :
       \E random15 \in (IF callsRandom(first) THEN Random15 ELSE {0}) :
         reply' = [op |-> "analyzeEmail",
                   result |-> IF random15 = 0 THEN first
                              ELSE analyzeEmail(request.content, request.sender,
                                                request.subject, FALSE, NoCall, random15)]
  /\ UNCHANGED <<apiKey, request, remoteCall, fraudVars, serverVars>>

\* analyzeEmail with an API key: the remote call resolves or fails
AnalyzeEmailRemote ==
  /\ reply = NoCall
  /\ apiKey
  /\ \E remote \in RemoteOutcomes :
       \E first \in {analyzeEmail(request.content, request.sender, request.subject,
                                  TRUE, remote, 0)} :
         \E random15 \in (IF ~remote.ok /\ callsRandom(first) THEN Random15 ELSE {0}) :
           /\ remoteCall' = remote
           /\ reply' = [op |-> "analyzeEmail",
                        result |-> IF random15 = 0 THEN first
                                   ELSE analyzeEmail(request.content, request.sender,
                                                     request.subject, TRUE, remote,
                                                     random15)]
  /\ UNCHANGED <<apiKey, request, fraudVars, serverVars>>

NextPhishing == AnalyzeEmailLocal \/ AnalyzeEmailRemote

SpecPhishing == InitPhishing /\ [][NextPhishing]_vars

(***************************************************************************)
(* The fraud service: updateRules and detectFraud calls in any order       *)
(***************************************************************************)

\* the longest list an updateRules call carries
MaxUpdateLen == 2

\* a rule configuration as getRules returns it, with some properties replaced
configOf(id, changes) ==
  LET config == withoutCheck(getRuleById(constructorRules, id))
  IN  [f \in DOMAIN config \cup DOMAIN changes |->
         IF f \in DOMAIN changes THEN changes[f] ELSE config[f]]

\* entries a caller may put in the list: partial objects, full configurations
\* (with a threshold that is positive, zero, negative or left out), entries
\* that bring their own name, description or check, and unknown ids
UpdateEntries ==
  { configOf("multiple-attempts", [threshold |-> 10]),
    configOf("multiple-attempts", [threshold |-> 0]),
    configOf("multiple-attempts", [threshold |-> -1]),
    [id |-> "multiple-attempts", name |-> "Multiple Failed Attempts",
     description |-> "Flag accounts with multiple failed verification attempts",
     enabled |-> TRUE],
    configOf("rapid-changes", [enabled |-> TRUE]),
    [id |-> "ip-anomaly", enabled |-> FALSE],
    [id |-> "ip-anomaly", name |-> "Renamed", description |-> "Changed",
     enabled |-> TRUE, check |-> "check:injected"],
    [id |-> "no-such-rule", name |-> "Extra", description |-> "Not in the table",
     enabled |-> TRUE, threshold |-> 1, check |-> "check:injected"] }

\* all sequences over S of length at most n
SeqUpTo(S, n) == UNION {[1..k -> S] : k \in 0..n}

UpdateLists == SeqUpTo(UpdateEntries, MaxUpdateLen)

\* an event record: failedAttempts is absent (-1) or a count, and each flag
\* is "absent", "true" or "false"
EventRecord(failedAttempts, flags) ==
  LET present == {f \in DOMAIN flags : flags[f] # "absent"}
                   \cup (IF failedAttempts = -1 THEN {} ELSE {"failedAttempts"})
  IN  [f \in present |-> IF f = "failedAttempts" THEN failedAttempts ELSE flags[f] = "true"]

AttemptCounts == {-1, 0, 2, 3, 5, 10}

FlagChoices ==
  [ipAnomaly : {"absent", "true", "false"}, unusualTiming : {"absent", "true"},
   identityMismatch : {"absent", "true"}, rapidChanges : {"absent", "true"}]

EventRecords == {EventRecord(n, flags) : n \in AttemptCounts, flags \in FlagChoices}

InitPhishingIdle ==
  /\ apiKey = FALSE
  /\ request = NoCall
  /\ remoteCall = NoCall
  /\ reply = NoCall

InitFraud == InitFraudIdle /\ InitPhishingIdle /\ InitServerIdle

UpdateRules ==
  \E updatedRules \in UpdateLists :
    /\ rules' = updateRules(rules, updatedRules)
    /\ fraudReply' = [op |-> "updateRules", result |-> getRules(rules'),
                      entries |-> Len(updatedRules),
                      matched |-> matchedEntries(rules, updatedRules)]
    /\ fraudData' = << >>
    /\ UNCHANGED <<phishingVars, serverVars>>

DetectFraud ==
  \E data \in EventRecords :
    /\ fraudData' = data
    /\ fraudReply' = [op |-> "detectFraud", result |-> detectFraud(rules, data)]
    /\ UNCHANGED <<rules, phishingVars, serverVars>>

GetRules ==
  /\ fraudReply' = [op |-> "getRules", result |-> getRules(rules)]
  /\ fraudData' = << >>
  /\ UNCHANGED <<rules, phishingVars, serverVars>>

NextFraud == UpdateRules \/ DetectFraud \/ GetRules

SpecFraud == InitFraud /\ [][NextFraud]_vars

(***************************************************************************)
(* The fraud routes on the shared engine.  Requests arrive at any time; the *)
(* event loop runs one handler at a time up to its next await, so handlers *)
(* of different requests interleave at their awaits.                       *)
(***************************************************************************)

\* the most requests the server handles in one behaviour
MaxRequests == 3

\* the bodies of the POST /api/fraud/rules requests
ServerUpdates ==
  { <<configOf("multiple-attempts", [threshold |-> 10]),
      [id |-> "ip-anomaly", enabled |-> FALSE]>>,
    <<configOf("rapid-changes", [enabled |-> TRUE]),
      configOf("multiple-attempts", [threshold |-> 0])>> }

\* the bodies of the POST /api/fraud/check requests
ServerRecords ==
  { EventRecord(5, [ipAnomaly |-> "true", unusualTiming |-> "absent",
                    identityMismatch |-> "absent", rapidChanges |-> "true"]),
    EventRecord(0, [ipAnomaly |-> "false", unusualTiming |-> "absent",
                    identityMismatch |-> "absent", rapidChanges |-> "absent"]) }

\* the entries of one updateRules call, one per stretch of the call that other
\* handlers could run between
runsOfOneEntry(updatedRules) == [k \in 1..Len(updatedRules) |-> <<updatedRules[k]>>]

\* the entries of one updateRules call, grouped by the stretches of the call
\* that run without giving up the event loop: forEach and its callback are
\* synchronous, so the whole list is one stretch
synchronousRuns(updatedRules) == <<updatedRules>>

\* a request as the server received it
Received(kind, body) ==
  [kind |-> kind, body |-> body, pc |-> "received", run |-> 0, seen |-> 0,
   isFraudulent |-> FALSE, triggeredRules |-> << >>]

InitServer == InitFraudIdle /\ InitPhishingIdle /\ InitServerIdle

\* a request reaches one of the two routes
Receive ==
  /\ Len(inflight) < MaxRequests
  /\ \/ \E b \in ServerUpdates : inflight' = Append(inflight, Received("rules", b))
     \/ \E b \in ServerRecords : inflight' = Append(inflight, Received("check", b))
  /\ UNCHANGED <<tables, store, fraudVars, phishingVars>>

\* POST /api/fraud/rules: the handler runs updateRules and responds
HandleRules ==
  \E i \in 1..Len(inflight) :
    /\ inflight[i].kind = "rules"
    /\ inflight[i].pc \in {"received", "updating"}
    /\ \E runs \in {synchronousRuns(inflight[i].body)} :
         \E k \in {inflight[i].run + 1} :
           /\ rules' = updateRules(rules, runs[k])
           /\ IF k = Len(runs)
                THEN /\ inflight' = [inflight EXCEPT ![i].pc = "responded", ![i].run = k]
                     /\ tables' = Append(tables, rules')
                ELSE /\ inflight' = [inflight EXCEPT ![i].pc = "updating", ![i].run = k]
                     /\ tables' = tables
    /\ UNCHANGED <<store, fraudData, fraudReply, phishingVars>>

\* triggeredRules.join(', ')
join(list) ==
  FoldRange(LAMBDA acc, k : IF k = 1 THEN list[k] ELSE acc \o ", " \o list[k],
            1, Len(list), "")

\* an alert stored for every result
needsAlertAlways(result) == TRUE

\* if (result.isFraudulent)
needsAlert(result) == result.isFraudulent

\* the alertData object of the check route; triggeredRules[0] of an empty
\* array is undefined
alertData(result) ==
  AlertData(IF Len(result.triggeredRules) > 0 THEN result.triggeredRules[1]
            ELSE "undefined",
            "Potential fraud detected: " \o join(result.triggeredRules),
            result.severity, "Flagged")

\* POST /api/fraud/check up to its first await: detectFraud runs and, for a
\* fraudulent result, createFraudAlert stores the alert; the handler responds
\* at once when nothing is to be stored
HandleCheck ==
  \E i \in 1..Len(inflight) :
    /\ inflight[i].kind = "check"
    /\ inflight[i].pc = "received"
    /\ \E result \in {detectFraud(rules, inflight[i].body)} :
         /\ inflight' = [inflight EXCEPT
                           ![i].pc = IF needsAlert(result) THEN "createFraudAlert"
                                     ELSE "responded",
                           ![i].seen = Len(tables),
                           ![i].isFraudulent = result.isFraudulent,
                           ![i].triggeredRules = result.triggeredRules]
         /\ store' = IF needsAlert(result) THEN createFraudAlert(store, alertData(result))
                     ELSE store
    /\ UNCHANGED <<tables, fraudVars, phishingVars>>

\* POST /api/fraud/check after an await: after the alert createActivityLog
\* writes the log entry, and after that the handler responds with the result
ResumeCheck ==
  \E i \in 1..Len(inflight) :
    /\ inflight[i].kind = "check"
    /\ inflight[i].pc \in {"createFraudAlert", "createActivityLog"}
    /\ inflight' = [inflight EXCEPT
                      ![i].pc = IF @ = "createFraudAlert" THEN "createActivityLog"
                                ELSE "responded"]
    /\ store' = IF inflight[i].pc = "createFraudAlert"
                  THEN createActivityLog(
                         store,
                         LogData("Fraud Alert",
                                 "Potential fraud detected: "
                                   \o join(inflight[i].triggeredRules),
                                 "Flagged"))
                  ELSE store
    /\ UNCHANGED <<tables, fraudVars, phishingVars>>

NextServer == Receive \/ HandleRules \/ HandleCheck \/ ResumeCheck

SpecServer == InitServer /\ [][NextServer]_vars

(***************************************************************************)
(* The analysis route and the check route on the shared store.  Every      *)
(* await of a handler is a point where the handlers of other requests run. *)
(***************************************************************************)

\* the most requests the server handles in one behaviour
MaxAnalyses == 2

MailBody(content, sender, subject, recipient) ==
  [content |-> content, sender |-> sender, subject |-> subject, recipient |-> recipient]

\* the bodies of the POST /api/phishing/analyze requests: emails with two
\* indicators and with one, an email without recipient, and one whose content
\* is a number
InboxMails ==
  { MailBody(Str(ExampleBody), Str("support@paypa1.com"), Str("Hello"), Str("me@a.org")),
    MailBody(Str(Parts[1]), Str("amy@a.org"), Str("Hello"), Str("me@a.org")),
    MailBody(Str(ExampleBody), Str("amy@a.org"), Str("Hello"), Str("")),
    MailBody(Num("42"), Str("amy@a.org"), Str("Hello"), Str("me@a.org")) }

\* the body of the POST /api/fraud/check requests
InboxRecords ==
  { EventRecord(5, [ipAnomaly |-> "true", unusualTiming |-> "absent",
                    identityMismatch |-> "absent", rapidChanges |-> "true"]) }

\* !v for a string or a number
falsy(v) == v.val = "" \/ v = Num("0")

\* an analysis request as the server received it, with the locals of its
\* handler: analysisResult, newEmail.id, the position of the for loop, the
\* indicators getPhishingEmailById found, and the response
ReceivedMail(body) ==
  [kind |-> "analyze", body |-> body, pc |-> "received", analysisResult |-> NoCall,
   emailId |-> 0, next |-> 0, found |-> << >>, response |-> NoCall]

InitInbox == InitFraudIdle /\ InitPhishingIdle /\ InitServerIdle

\* a request reaches one of the two routes
ReceiveInbox ==
  /\ Len(inflight) < MaxAnalyses
  /\ \/ \E b \in InboxMails : inflight' = Append(inflight, ReceivedMail(b))
     \/ \E b \in InboxRecords : inflight' = Append(inflight, Received("check", b))
  /\ UNCHANGED <<tables, store, fraudVars, phishingVars>>

\* each body with what analyzeEmail returns for it when no API key is set
\* and the draw is 0
analysed ==
  {<<body, analyzeEmail(body.content, body.sender, body.subject, FALSE, NoCall, 0)>> :
     body \in InboxMails}

\* the result of the handler's analyzeEmail call with the draw 0
analysisOf(body) == (CHOOSE pair \in analysed : pair[1] = body)[2]

\* POST /api/phishing/analyze up to its first await: the fields are checked
\* and analyzeEmail is called, which without an API key runs the heuristic
HandleAnalyze ==
  \E i \in 1..Len(inflight) :
    /\ inflight[i].kind = "analyze"
    /\ inflight[i].pc = "received"
    /\ \E body \in {inflight[i].body} :
         IF falsy(body.content) \/ falsy(body.sender) \/ falsy(body.subject)
              \/ falsy(body.recipient)
           THEN inflight' = [inflight EXCEPT
                               ![i].pc = "responded",
                               ![i].response = [status |-> 400,
                                                message |-> "Missing required fields"]]
           ELSE \E first \in {analysisOf(body)} :
                  \E random15 \in (IF callsRandom(first) THEN Random15 ELSE {0}) :
                    inflight' = [inflight EXCEPT
                                   ![i].pc = "analyzeEmail",
                                   ![i].analysisResult =
                                      IF random15 = 0 THEN first
                                      ELSE analyzeEmail(body.content, body.sender,
                                                        body.subject, FALSE, NoCall,
                                                        random15)]
    /\ UNCHANGED <<tables, store, fraudVars, phishingVars>>

\* the email of the last createPhishingEmail call
emailIdOfLatest(s, r) == s.phishingEmailIdCounter - 1

\* emailId: newEmail.id, the handler's own local
emailIdOf(s, r) == r.emailId

\* the argument of createPhishingEmail
newEmailData(body, analysisResult) ==
  EmailData(body.subject.val, body.sender.val, body.recipient.val, body.content.val,
            analysisResult.phishingScore,
            IF analysisResult.phishingScore > 70 THEN "Quarantined" ELSE "Analyzed")

\* the argument of createActivityLog
analysisLogData(body, analysisResult) ==
  LogData("Phishing Detection",
          "Email analyzed: " \o body.subject.val \o " (Score: "
            \o ToString(analysisResult.phishingScore) \o ")",
          IF analysisResult.phishingScore > 70 THEN "Flagged" ELSE "Successful")

\* the handler after the await on analyzeEmail: a failed analysis is answered
\* with 400, otherwise createPhishingEmail stores the email
ResumeAnalysis ==
  \E i \in 1..Len(inflight) :
    /\ inflight[i].kind = "analyze"
    /\ inflight[i].pc = "analyzeEmail"
    /\ IF ~inflight[i].analysisResult.success
         THEN /\ inflight' = [inflight EXCEPT
                                ![i].pc = "responded",
                                ![i].response =
                                   [status |-> 400,
                                    message |-> IF inflight[i].analysisResult.error # ""
                                                  THEN inflight[i].analysisResult.error
                                                  ELSE "Failed to analyze email"]]
              /\ store' = store
         ELSE /\ store' = createPhishingEmail(
                            store, newEmailData(inflight[i].body, inflight[i].analysisResult))
              /\ inflight' = [inflight EXCEPT ![i].pc = "createPhishingEmail",
                                              ![i].emailId = store.phishingEmailIdCounter,
                                              ![i].next = 1]
    /\ UNCHANGED <<tables, fraudVars, phishingVars>>

\* the handler after the await on createPhishingEmail or on a
\* createPhishingIndicator: the for loop stores the next indicator, or, at
\* its end, createActivityLog writes the log entry
ResumeIndicators ==
  \E i \in 1..Len(inflight) :
    /\ inflight[i].kind = "analyze"
    /\ inflight[i].pc \in {"createPhishingEmail", "createPhishingIndicator"}
    /\ IF inflight[i].next <= Len(inflight[i].analysisResult.indicators)
         THEN /\ store' = createPhishingIndicator(
                            store,
                            indicatorFor(emailIdOf(store, inflight[i]),
                                         inflight[i].analysisResult.indicators[inflight[i].next]))
              /\ inflight' = [inflight EXCEPT ![i].pc = "createPhishingIndicator",
                                              ![i].next = @ + 1]
         ELSE /\ store' = createActivityLog(
                            store, analysisLogData(inflight[i].body,
                                                   inflight[i].analysisResult))
              /\ inflight' = [inflight EXCEPT ![i].pc = "createActivityLog"]
    /\ UNCHANGED <<tables, fraudVars, phishingVars>>

\* the handler after the await on createActivityLog: getPhishingEmailById
\* looks the email up and calls getPhishingIndicatorsByEmailId, which filters
\* the indicators at once; after the await inside getPhishingEmailById the
\* indicators are assigned to the stored email; after the handler's own await
\* the email is sent
ResumeComplete ==
  \E i \in 1..Len(inflight) :
    /\ inflight[i].kind = "analyze"
    /\ inflight[i].pc \in {"createActivityLog", "getPhishingIndicatorsByEmailId",
                           "getPhishingEmailById"}
    /\ \/ /\ inflight[i].pc = "createActivityLog"
          /\ inflight' = [inflight EXCEPT
                            ![i].pc = "getPhishingIndicatorsByEmailId",
                            ![i].found = getPhishingIndicatorsByEmailId(
                                           store, inflight[i].emailId)]
          /\ store' = store
       \/ /\ inflight[i].pc = "getPhishingIndicatorsByEmailId"
          /\ inflight' = [inflight EXCEPT ![i].pc = "getPhishingEmailById"]
          /\ store' = assignIndicators(store, inflight[i].emailId, inflight[i].found)
       \/ /\ inflight[i].pc = "getPhishingEmailById"
          /\ inflight' = [inflight EXCEPT
                            ![i].pc = "responded",
                            ![i].response = [status |-> 200,
                                             email |-> getEmail(store, inflight[i].emailId)[1]]]
          /\ store' = store
    /\ UNCHANGED <<tables, fraudVars, phishingVars>>

NextInbox ==
  \/ ReceiveInbox
  \/ HandleAnalyze
  \/ ResumeAnalysis
  \/ ResumeIndicators
  \/ ResumeComplete
  \/ HandleCheck
  \/ ResumeCheck

SpecInbox == InitInbox /\ [][NextInbox]_vars

(***************************************************************************)
(* The edit distance: levenshteinDistance called on strings over a small   *)
(* alphabet                                                                *)
(***************************************************************************)

\* the longest string the distance is called on
MaxStringLen == 3

Alphabet == {"a", "b"}

RECURSIVE StringsOfLen(_)
StringsOfLen(n) ==
  IF n = 0 THEN {""} ELSE {s \o ch : s \in StringsOfLen(n - 1), ch \in Alphabet}

Strings == UNION {StringsOfLen(n) : n \in 0..MaxStringLen}

\* three strings, and no call made yet
InitDistance ==
  /\ request \in [a : Strings, b : Strings, c : Strings]
  /\ apiKey = FALSE
  /\ remoteCall = NoCall
  /\ reply = NoCall
  /\ InitFraudIdle
  /\ InitServerIdle

\* the calls levenshteinDistance(a, b), (b, a), (b, c) and (a, c)
MeasureDistances ==
  /\ reply = NoCall
  /\ reply' = [op |-> "levenshteinDistance",
               ab |-> levenshteinDistance(request.a, request.b),
               ba |-> levenshteinDistance(request.b, request.a),
               bc |-> levenshteinDistance(request.b, request.c),
               ac |-> levenshteinDistance(request.a, request.c)]
  /\ UNCHANGED <<apiKey, request, remoteCall, fraudVars, serverVars>>

NextDistance == MeasureDistances

SpecDistance == InitDistance /\ [][NextDistance]_vars

(***************************************************************************)
(* Properties of the phishing service                                      *)
(***************************************************************************)

\* analyzeEmail has returned a value computed by the local heuristic
\* (generateDemoResult ran to its end): no API key, or the remote call failed
heuristicResult ==
  /\ reply # NoCall
  /\ ~apiKey \/ (remoteCall # NoCall /\ ~remoteCall.ok)
  /\ reply.result.success

\* the analyzer results generateDemoResult computed for the request
requestResults ==
  analyzerResults(request.content.val, request.sender.val, request.subject.val)

\* the indicator types, in the order of the eight blocks of generateDemoResult
indicatorTypes ==
  << "Spoofed Domain", "Suspicious Link", "Mismatched URLs", "Urgency or Pressure",
     "Request for Sensitive Information", "Suspicious Attachment",
     "Impersonation Attempt", "Grammar Errors" >>

\* C1: on the local heuristic path the returned score is an integer between 0
\* and 100, however many analyzers fired and whichever bonuses were added.
C1_ScoreWithinBounds ==
  heuristicResult => reply.result.phishingScore \in 0..100

\* all eight analyzers fired, both bonuses were added, the total passed 100 and
\* the returned score is 100
C1_Witness ==
  /\ heuristicResult
  /\ Len(reply.result.indicators) = 8
  /\ accumulatedScore(requestResults) + 10 + 15 > 100
  /\ reply.result.phishingScore = 100

\* C6: when the local heuristic produced at least one indicator, the score is
\* min(100, S + B1 + B2): S the sum of the contributions of the analyzers that
\* fired, B1 = 10 when at least two returned indicators have severity High,
\* B2 = 15 when both the urgency and the sensitive-information analyzer fired.
C6_ScoreIsCappedSum ==
  (heuristicResult /\ Len(reply.result.indicators) >= 1) =>
    LET r == requestResults
        ind == reply.result.indicators
        S == accumulatedScore(r)
        B1 == IF Cardinality({k \in 1..Len(ind) : ind[k].severity = "High"}) >= 2
                THEN 10 ELSE 0
        B2 == IF r.urgencyResult.hasUrgencyTactics
                  /\ r.sensitiveInfoResult.requestsSensitiveInfo
                THEN 15 ELSE 0
    IN  reply.result.phishingScore = Min2(100, S + B1 + B2)

\* both bonuses were added to a sum of two contributions and the total stayed
\* under the cap
C6_Witness ==
  /\ heuristicResult
  /\ Len(reply.result.indicators) = 2
  /\ reply.result.indicators[1].type = "Urgency or Pressure"
  /\ reply.result.indicators[2].type = "Request for Sensitive Information"
  /\ reply.result.phishingScore = accumulatedScore(requestResults) + 10 + 15
  /\ reply.result.phishingScore < 100

\* C7: when the local heuristic produced no indicator, the score is an integer
\* between 1 and 15, never 0.
C7_LowScoreRange ==
  (heuristicResult /\ Len(reply.result.indicators) = 0) =>
    reply.result.phishingScore \in 1..15

\* no indicator, and the random draw gave the smallest value
C7_Witness ==
  /\ heuristicResult
  /\ Len(reply.result.indicators) = 0
  /\ reply.result.phishingScore = 1

\* C8 as stated: in every result analyzeEmail returns, success or failure
\* record, a score of 0 implies an empty indicator list.
C8_ZeroScoreMeansNoIndicators ==
  reply # NoCall =>
    (reply.result.phishingScore = 0 => Len(reply.result.indicators) = 0)

\* C8 amended: in every result the local heuristic computed, and in the
\* failure record, a score of 0 implies an empty indicator list; a result
\* taken over from the remote service is whatever that service answered.
C8_ZeroScoreMeansNoIndicatorsLocally ==
  (reply # NoCall /\ (heuristicResult \/ ~reply.result.success)) =>
    (reply.result.phishingScore = 0 => Len(reply.result.indicators) = 0)

\* the failure record: score 0 and no indicators
C8_Witness ==
  /\ reply # NoCall
  /\ ~reply.result.success
  /\ reply.result.phishingScore = 0
  /\ reply.result.indicators = << >>

\* C9: the indicator list of one local analysis holds at most one indicator
\* of each of the eight types, in the order of indicatorTypes.
C9_IndicatorsInFixedOrder ==
  heuristicResult =>
    LET ind == reply.result.indicators
        rank(t) == FirstIndex(indicatorTypes, LAMBDA u : u = t)
    IN  /\ \A k \in 1..Len(ind) : rank(ind[k].type) # 0
        /\ \A i, j \in 1..Len(ind) :
             i < j => rank(ind[i].type) < rank(ind[j].type)

\* a list that skips types: the second, fourth and sixth, in that order
C9_Witness ==
  /\ heuristicResult
  /\ Len(reply.result.indicators) = 3
  /\ reply.result.indicators[1].type = "Suspicious Link"
  /\ reply.result.indicators[2].type = "Urgency or Pressure"
  /\ reply.result.indicators[3].type = "Suspicious Attachment"

\* the example message of the specification under a subject without any
\* urgency phrase
exampleAnalysed ==
  /\ heuristicResult
  /\ request.content = Str(ExampleBody)
  /\ request.subject = Str("Hello")

\* reply.result.indicators holds an indicator of type t
hasIndicator(t) ==
  \E k \in 1..Len(reply.result.indicators) : reply.result.indicators[k].type = t

\* C10 as stated: the example message yields an Urgency or Pressure indicator
\* and a Request for Sensitive Information indicator, and its score includes
\* the bonus of 15 on top of the contributions, up to the cap.
C10_ExampleFiresUrgencyAndSensitive ==
  exampleAnalysed =>
    /\ hasIndicator("Urgency or Pressure")
    /\ hasIndicator("Request for Sensitive Information")
    /\ reply.result.phishingScore >= Min2(100, accumulatedScore(requestResults) + 15)

\* C10 amended: the example message yields a Request for Sensitive Information
\* indicator of confidence 88 and no Urgency or Pressure indicator, so the
\* bonus of 15 is not added: the score is the sum of the contributions plus
\* the bonus of 10 when two indicators have severity High, up to the cap.
C10_ExampleFiresSensitiveOnly ==
  exampleAnalysed =>
    LET r == requestResults
        ind == reply.result.indicators
        B1 == IF Cardinality({k \in 1..Len(ind) : ind[k].severity = "High"}) >= 2
                THEN 10 ELSE 0
    IN  /\ ~hasIndicator("Urgency or Pressure")
        /\ \E k \in 1..Len(ind) :
             /\ ind[k].type = "Request for Sensitive Information"
             /\ ind[k].confidence = 88
        /\ r.sensitiveInfoResult.scoreContribution = 28
        /\ reply.result.phishingScore = Min2(100, accumulatedScore(r) + B1)

\* the example message from an unsuspicious sender: one indicator, score 28
C10_Witness ==
  /\ exampleAnalysed
  /\ request.sender = Str("amy@a.org")
  /\ Len(reply.result.indicators) = 1
  /\ reply.result.indicators[1].type = "Request for Sensitive Information"
  /\ reply.result.phishingScore = 28

(***************************************************************************)
(* Properties of the fraud service                                         *)
(***************************************************************************)

\* the predicate of the k-th rule matches the event record of the last call
matches(k) == check(rules[k].check, fraudData, rules)

\* the ids of the enabled rules whose predicate matches, in table order
enabledMatchingIds ==
  LET hits == SelectSeq([k \in 1..Len(rules) |-> k],
                        LAMBDA k : truthy(rules[k], "enabled") /\ matches(k))
  IN  [i \in 1..Len(hits) |-> rules[hits[i]].id]

\* C2: after any sequence of updateRules calls the table holds the five ids of
\* the constructor in their order, each bound to the predicate it was
\* constructed with.
C2_IdsAndPredicatesStable ==
  /\ Len(rules) = Len(constructorRules)
  /\ \A k \in 1..Len(rules) :
       /\ rules[k].id = constructorRules[k].id
       /\ rules[k].check = constructorRules[k].check

\* an entry that carried its own check (and a new name) was merged into rule 2
C2_Witness ==
  /\ fraudReply # NoCall
  /\ fraudReply.op = "updateRules"
  /\ has(rules[2], "name")
  /\ rules[2].name = "Renamed"
  /\ rules[2].check = "check:ip-anomaly"

\* C3 as stated: after any updateRules call every rule's name and description
\* equal the values the constructor gave them.
C3_NameAndDescriptionStable ==
  \A k \in 1..Len(rules) :
    /\ has(rules[k], "name")
    /\ has(rules[k], "description")
    /\ rules[k].name = constructorRules[k].name
    /\ rules[k].description = constructorRules[k].description

C5_TriggeredAreEnabledMatches ==
  (fraudReply # NoCall /\ fraudReply.op = "detectFraud") =>
    /\ fraudReply.result.isFraudulent <=>
         \E k \in 1..Len(rules) : truthy(rules[k], "enabled") /\ matches(k)
    /\ fraudReply.result.triggeredRules = enabledMatchingIds

\* the predicate of the disabled rapid-changes rule matches, another rule
\* triggers, and rapid-changes is not reported
C5_Witness ==
  /\ fraudReply # NoCall
  /\ fraudReply.op = "detectFraud"
  /\ ~truthy(rules[5], "enabled")
  /\ matches(5)
  /\ fraudReply.result.isFraudulent
  /\ \A i \in 1..Len(fraudReply.result.triggeredRules) :
       fraudReply.result.triggeredRules[i] # "rapid-changes"

(***************************************************************************)
(* Error handling of analyzeEmail                                          *)
(***************************************************************************)

\* analyzeEmail has returned after calling generateDemoResult: it had no API
\* key, or the remote call failed
heuristicRan ==
  /\ reply # NoCall
  /\ ~apiKey \/ (remoteCall # NoCall /\ ~remoteCall.ok)

\* analyzeEmail has returned after a failed call to the remote service
remoteFailed ==
  /\ reply # NoCall
  /\ apiKey
  /\ remoteCall # NoCall
  /\ ~remoteCall.ok

\* the message of the exception the analysis of the request raises, "" if none
requestError ==
  generateDemoResultError(request.content, request.sender, request.subject)

\* C11: when the analysis raises an exception (a content or subject that is
\* not a string), analyzeEmail returns the record {success: false,
\* phishingScore: 0, indicators: [], error: message} with the exception's
\* message; every return value of analyzeEmail with success false has score 0
\* and no indicators.
C11_ExceptionGivesFailureRecord ==
  /\ (heuristicRan /\ requestError # "") =>
       reply.result = [success |-> FALSE, phishingScore |-> 0, indicators |-> << >>,
                       error |-> requestError]
  /\ (reply # NoCall /\ ~reply.result.success) =>
       /\ reply.result.phishingScore = 0
       /\ reply.result.indicators = << >>
       /\ "error" \in DOMAIN reply.result

\* the fallback after a failed remote call raised on a numeric content, and
\* analyzeEmail returned the failure record
C11_Witness ==
  /\ remoteFailed
  /\ ~isString(request.content)
  /\ ~reply.result.success
  /\ reply.result.error = "emailContent.toLowerCase is not a function"
  /\ reply.result.indicators = << >>

\* C12 as stated: after a failed remote call analyzeEmail returns a result
\* with success = true that equals the local heuristic's result for the same
\* arguments.
C12_RemoteFailureGivesLocalSuccess ==
  remoteFailed =>
    /\ reply.result.success
    /\ \E d \in Random15 :
         reply.result = analyzeEmail(request.content, request.sender, request.subject,
                                     FALSE, NoCall, d)

\* C12 amended: after a failed remote call analyzeEmail returns what it returns
\* without an API key for the same arguments (for some value of the random
\* draw): a result with success = true when all three arguments are strings,
\* and otherwise the failure record carrying the heuristic's own exception
\* message, never the remote error.
C12_RemoteFailureGivesLocalResult ==
  remoteFailed =>
    /\ \E d \in Random15 :
         reply.result = analyzeEmail(request.content, request.sender, request.subject,
                                     FALSE, NoCall, d)
    /\ reply.result.success <=> requestError = ""
    /\ ~reply.result.success =>
         /\ reply.result.error = requestError
         /\ reply.result.error # remoteCall.error

\* the remote call failed and the fallback found an indicator in the example
\* message
C12_Witness ==
  /\ remoteFailed
  /\ request.content = Str(ExampleBody)
  /\ reply.result.success
  /\ Len(reply.result.indicators) >= 1
  /\ reply.result.phishingScore >= 28

(***************************************************************************)
(* Properties of updateRules and of the rule predicates                    *)
(***************************************************************************)

\* C13: an updateRules call whose entries all carry ids that match no rule
\* returns normally, leaves the table as it was (no field changed, no rule
\* added) and returns the configurations of the current rules.
C13_UnknownIdsIgnored ==
  [][(fraudReply'.op = "updateRules" /\ fraudReply'.entries > 0
        /\ fraudReply'.matched = 0) =>
       /\ rules' = rules
       /\ Len(rules') = Len(constructorRules)
       /\ fraudReply'.result = getRules(rules)]_vars

\* a call with two entries, both for an unknown id, has returned the five
\* configurations of a table that an earlier call had changed
C13_Witness ==
  /\ fraudReply # NoCall
  /\ fraudReply.op = "updateRules"
  /\ fraudReply.entries = 2
  /\ fraudReply.matched = 0
  /\ Len(fraudReply.result) = 5
  /\ rules # constructorRules

\* detectFraud has returned
detected == fraudReply # NoCall /\ fraudReply.op = "detectFraud"

\* the id is in the triggeredRules of the last detectFraud call
listed(id) ==
  \E i \in 1..Len(fraudReply.result.triggeredRules) :
    fraudReply.result.triggeredRules[i] = id

\* the failedAttempts of the event record, 0 when it has none
attempts == IF has(fraudData, "failedAttempts") THEN fraudData.failedAttempts ELSE 0

\* C14: while the multiple-attempts rule is enabled with a positive threshold
\* T set by updateRules, detectFraud lists the rule exactly when the record's
\* failedAttempts >= T; with T = 10 a record with failedAttempts 5 does not
\* trigger it.
C14_ThresholdDecides ==
  (detected /\ truthy(rules[1], "enabled") /\ has(rules[1], "threshold")
     /\ rules[1].threshold > 0) =>
    (listed("multiple-attempts") <=> attempts >= rules[1].threshold)

\* the threshold was set to 10 and a record with 5 failed attempts did not
\* trigger the rule
C14_Witness ==
  /\ detected
  /\ truthy(rules[1], "enabled")
  /\ has(rules[1], "threshold")
  /\ rules[1].threshold = 10
  /\ attempts = 5
  /\ ~listed("multiple-attempts")

\* no predicate of the constructor's enabled rules matches the event record
nothingToTrigger ==
  /\ attempts < 3
  /\ \A f \in {"ipAnomaly", "unusualTiming", "identityMismatch"} :
       ~(has(fraudData, f) /\ fraudData[f] = TRUE)

\* C15: on the table of a freshly constructed engine a record with
\* failedAttempts >= 3 is fraudulent and lists multiple-attempts, and a record
\* that triggers no rule gives isFraudulent = false and no triggered rule.
C15_FreshEngineDefaults ==
  (detected /\ rules = constructorRules) =>
    /\ attempts >= 3 =>
         fraudReply.result.isFraudulent /\ listed("multiple-attempts")
    /\ nothingToTrigger =>
         ~fraudReply.result.isFraudulent /\ fraudReply.result.triggeredRules = << >>

\* the fresh engine found a record with exactly three failed attempts
\* fraudulent
C15_Witness ==
  /\ detected
  /\ rules = constructorRules
  /\ attempts = 3
  /\ fraudReply.result.isFraudulent
  /\ listed("multiple-attempts")

\* the event record with every field the predicates read: an absent
\* failedAttempts is 0, an absent flag is false
filled(data) ==
  [f \in {"failedAttempts", "ipAnomaly", "unusualTiming", "identityMismatch",
          "rapidChanges"} |->
     IF has(data, f) THEN data[f] ELSE IF f = "failedAttempts" THEN 0 ELSE FALSE]

\* the multiple-attempts rule is enabled with a threshold below zero
negativeThreshold ==
  /\ truthy(rules[1], "enabled")
  /\ has(rules[1], "threshold")
  /\ rules[1].threshold < 0

\* C18 as stated: the result for a record equals the result for the record
\* with its absent fields set to 0 or false, and the empty record is never
\* fraudulent.
C18_MissingFieldsAndEmptyRecord ==
  detected =>
    /\ fraudReply.result = detectFraud(rules, filled(fraudData))
    /\ DOMAIN fraudData = {} => ~fraudReply.result.isFraudulent

\* C18 amended: the result for a record equals the result for the record with
\* its absent fields set to 0 or false; the empty record is not fraudulent
\* unless the multiple-attempts rule is enabled with a negative threshold, and
\* then it triggers exactly that rule.
C18_MissingFieldsAreZeroOrFalse ==
  detected =>
    /\ fraudReply.result = detectFraud(rules, filled(fraudData))
    /\ DOMAIN fraudData = {} =>
         IF negativeThreshold
           THEN fraudReply.result.triggeredRules = <<"multiple-attempts">>
           ELSE ~fraudReply.result.isFraudulent

\* a record that only says ipAnomaly is false, judged on a table with the
\* rapid-changes rule enabled, is not fraudulent
C18_Witness ==
  /\ detected
  /\ DOMAIN fraudData = {"ipAnomaly"}
  /\ truthy(rules[5], "enabled")
  /\ ~fraudReply.result.isFraudulent
  /\ fraudReply.result = detectFraud(rules, filled(fraudData))

(***************************************************************************)
(* Concurrent requests on the shared engine                                *)
(***************************************************************************)

\* the check requests whose handler has called detectFraud
detectedRequests ==
  {i \in 1..Len(inflight) : inflight[i].kind = "check" /\ inflight[i].pc # "received"}

\* C16: whenever handlers of concurrent requests interleave, the rule table
\* that another handler can see is the table as one whole updateRules call
\* left it, and every detectFraud result is the evaluation of its record
\* against the table at the latest call boundary before it ran: no result
\* reflects only some entries of an updateRules call.
C16_NoPartialUpdateObserved ==
  /\ rules = tables[Len(tables)]
  /\ \A i \in detectedRequests :
       LET whole == detectFraud(tables[inflight[i].seen], inflight[i].body)
       IN  /\ inflight[i].isFraudulent = whole.isFraudulent
           /\ inflight[i].triggeredRules = whole.triggeredRules

\* two updateRules calls ran while a check request was suspended at an await:
\* one before its detectFraud call and one after it, and its result is not the
\* one either the first or the last table would give
C16_Witness ==
  \E i \in detectedRequests :
    /\ inflight[i].pc = "createFraudAlert"
    /\ inflight[i].seen = 2
    /\ Len(tables) = 3
    /\ inflight[i].triggeredRules # detectFraud(tables[1], inflight[i].body).triggeredRules
    /\ inflight[i].triggeredRules # detectFraud(tables[3], inflight[i].body).triggeredRules

(***************************************************************************)
(* Repeated calls and the sender domain                                    *)
(***************************************************************************)

\* the least and the greatest value Math.floor(Math.random() * 15) takes in a
\* second call
SecondDraws == {0, 14}

\* C17: a second analyzeEmail call on the local heuristic path with the same
\* content, sender and subject returns the same indicator list as the first,
\* and the same score whenever that list is not empty, whatever its random
\* draw.
C17_RepeatedCallAgrees ==
  heuristicResult =>
    \A d \in SecondDraws :
      With(analyzeEmail(request.content, request.sender, request.subject,
                        FALSE, NoCall, d),
           LAMBDA again :
             /\ again.indicators = reply.result.indicators
             /\ Len(reply.result.indicators) > 0 =>
                  again.phishingScore = reply.result.phishingScore)

\* a first call that found three indicators, and a second call with the
\* greatest draw that returns the same record
C17_Witness ==
  /\ heuristicResult
  /\ Len(reply.result.indicators) = 3
  /\ analyzeEmail(request.content, request.sender, request.subject, FALSE, NoCall, 14)
       = reply.result

\* the heuristic ran to its end on a sender string without '@'
senderWithoutAt ==
  /\ heuristicRan
  /\ requestError = ""
  /\ ~includes(request.sender.val, "@")

\* C19: for a sender without '@' the derived domain is the empty string, the
\* result has success = true and no Spoofed Domain indicator, and the domain
\* analyzer contributes nothing: a score with indicators is the capped sum of
\* the other analyzers' contributions and the two bonuses.
C19_NoAtSignNoDomain ==
  senderWithoutAt =>
    LET r == requestResults
        ind == reply.result.indicators
        S == accumulatedScore([r EXCEPT !.spoofingResult = DomainResult(FALSE, "", 0, 0)])
        B1 == IF Cardinality({k \in 1..Len(ind) : ind[k].severity = "High"}) >= 2
                THEN 10 ELSE 0
        B2 == IF r.urgencyResult.hasUrgencyTactics
                  /\ r.sensitiveInfoResult.requestsSensitiveInfo
                THEN 15 ELSE 0
    IN  /\ domainOf(request.sender.val) = ""
        /\ reply.result.success
        /\ ~hasIndicator("Spoofed Domain")
        /\ ~r.spoofingResult.isSuspicious
        /\ r.spoofingResult.scoreContribution = 0
        /\ Len(ind) > 0 => reply.result.phishingScore = Min2(100, S + B1 + B2)

\* the sender is a typosquatted domain name written without '@', and the
\* analysis succeeded with the score of the one other indicator
C19_Witness ==
  /\ senderWithoutAt
  /\ request.sender = Str("paypa1.com")
  /\ reply.result.success
  /\ reply.result.phishingScore = 28
  /\ Len(reply.result.indicators) = 1

\* the domain is longer than 5 characters, has a digit, and lies within edit
\* distance 2 of <brand>.com, without being it, for some listed brand
digitTyposquat(domain) ==
  /\ Len(domain) > 5
  /\ hasDigit(domain)
  /\ \E k \in 1..Len(commonDomainsToSpoof) :
       /\ domain # commonDomainsToSpoof[k] \o ".com"
       /\ levenshteinDistance(domain, commonDomainsToSpoof[k] \o ".com") <= 2

\* the domain contains the name of a listed brand
containsBrand(domain) ==
  \E k \in 1..Len(commonDomainsToSpoof) : includes(domain, commonDomainsToSpoof[k])

\* the first label of the domain contains one of the look-alike pairs
lookAlikePair(domain) ==
  \E pair \in {"rn", "vv", "l1", "0o"} : includes(split(domain, ".")[1], pair)

\* the heuristic ran to its end on a sender whose domain is a digit typosquat
typosquatAnalysed ==
  /\ heuristicResult
  /\ digitTyposquat(domainOf(request.sender.val))

\* C20 as stated: every digit typosquat of a listed brand yields a Spoofed
\* Domain indicator with confidence 93 and score contribution 38.
C20_DigitTyposquatGives93 ==
  typosquatAnalysed =>
    /\ reply.result.indicators[1].type = "Spoofed Domain"
    /\ reply.result.indicators[1].confidence = 93
    /\ requestResults.spoofingResult.scoreContribution = 38

\* C20 amended: every digit typosquat of a listed brand yields a Spoofed
\* Domain indicator; its confidence and contribution are 93 and 38 when the
\* domain contains no listed brand name and no look-alike pair, and otherwise
\* a check that comes first may decide: 87/32 or 90/35 only for a domain that
\* contains a brand name, 86/33 only for one with a look-alike pair.
C20_DigitTyposquatFlagged ==
  typosquatAnalysed =>
    LET domain == domainOf(request.sender.val)
        confidence == reply.result.indicators[1].confidence
        contribution == requestResults.spoofingResult.scoreContribution
    IN  /\ reply.result.indicators[1].type = "Spoofed Domain"
        /\ <<confidence, contribution>> \in {<<93, 38>>, <<87, 32>>, <<90, 35>>, <<86, 33>>}
        /\ (~containsBrand(domain) /\ ~lookAlikePair(domain)) =>
             <<confidence, contribution>> = <<93, 38>>
        /\ confidence \in {87, 90} => containsBrand(domain)
        /\ confidence = 86 => lookAlikePair(domain)

\* a typosquat of the fifth brand of the list, two substitutions away from
\* google.com, flagged with confidence 93
C20_Witness ==
  /\ typosquatAnalysed
  /\ request.sender = Str("it@g00gle.com")
  /\ reply.result.indicators[1].type = "Spoofed Domain"
  /\ reply.result.indicators[1].confidence = 93

(***************************************************************************)
(* Links to numeric addresses                                              *)
(***************************************************************************)

\* links whose host is an IPv4 literal
ipLiteralUrls ==
  { "http://10.0.0.1/x", "http://192.168.1.1/login", "https://192.168.1.1/a",
    "http://172.16.0.9/signin" }

\* the body of the request holds one of the links to an IPv4 literal
ipUrlAnalysed ==
  /\ heuristicResult
  /\ \E u \in ipLiteralUrls : includes(request.content.val, u)

\* the body of the request also holds a pattern of a later link check: a
\* shortener, an encoded character, a redirect parameter, a login marker or a
\* keyword path
laterLinkPattern ==
  \E p \in {"bit.ly", "tinyurl", "%2F", "url=", "signin", "/verify"} :
    includes(request.content.val, p)

\* C21: every body that contains a link to an IPv4 literal yields a
\* Suspicious Link indicator with severity High and confidence 95, and the
\* link analyzer contributes 28 to the score, whichever patterns of the later
\* link checks the body also contains.
C21_IpLinkFlaggedFirst ==
  ipUrlAnalysed =>
    /\ requestResults.linkResult =
         LinkResult(TRUE,
           "Email contains links using IP addresses instead of domain names, which is highly suspicious",
           "High", 95, 28)
    /\ \E k \in 1..Len(reply.result.indicators) :
         /\ reply.result.indicators[k].type = "Suspicious Link"
         /\ reply.result.indicators[k].severity = "High"
         /\ reply.result.indicators[k].confidence = 95
    /\ \A k \in 1..Len(reply.result.indicators) :
         reply.result.indicators[k].type = "Suspicious Link" =>
           reply.result.indicators[k].confidence = 95

\* a body with a numeric link, an encoded character and a redirect parameter
\* was analysed, and one with a numeric link and a shortener
C21_Witness ==
  /\ ipUrlAnalysed
  /\ laterLinkPattern
  /\ request.content = Str("See https://192.168.1.1/a?url=b%2Fc now")
  /\ reply.result.indicators[1].type = "Suspicious Link"
  /\ reply.result.indicators[1].confidence = 95

(***************************************************************************)
(* Priority of the brand-substring checks                                  *)
(***************************************************************************)

\* the heuristic ran to its end on a sender whose domain contains a listed
\* brand and a hyphen
hyphenatedBrandAnalysed ==
  /\ heuristicResult
  /\ containsBrand(domainOf(request.sender.val))
  /\ includes(domainOf(request.sender.val), "-")

\* C22: the brand-substring checks take precedence over the typosquat and
\* look-alike checks: every domain that contains a listed brand and a hyphen is
\* flagged with confidence 87 and score contribution 32, even when it also
\* contains a digit or one of the pairs rn, vv, l1, 0o.
C22_HyphenatedBrandGives87 ==
  hyphenatedBrandAnalysed =>
    /\ reply.result.indicators[1].type = "Spoofed Domain"
    /\ reply.result.indicators[1].confidence = 87
    /\ requestResults.spoofingResult.scoreContribution = 32

(***************************************************************************)
(* The poor-grammar total                                                  *)
(***************************************************************************)

\* the sum of the increments of the signals of a body: 2 for repeated
\* punctuation, 1 for each all-caps word, 2 for each mixed-case word, 1 for
\* each short sentence when there are more than two, 3 for each misspelling
\* and 4 for each greeting
incrementSum(c) ==
  2 * c.punct + c.caps + 2 * c.mixed + (IF c.short > 2 THEN c.short ELSE 0)
  + 3 * c.errors + 4 * c.greetings

\* the result of the language analyzer for a total
tierOf(total) ==
  IF total >= 10 THEN LanguageResult(TRUE, "", "Medium", 80, 18)
  ELSE IF total >= 5 THEN LanguageResult(TRUE, "", "Low", 65, 10)
  ELSE LanguageResult(FALSE, "", "Low", 0, 0)

\* the heuristic ran to its end on the body of the case
grammarCaseAnalysed(c) ==
  /\ heuristicResult
  /\ request.content = Str(c.content)

\* C23: the poor-grammar total is the sum of independent fixed increments (one
\* all-caps word already adds 1, each mixed-case word adds 2), and the
\* indicator is Medium (80, 18) from 10 on, Low (65, 10) from 5 to 9 and
\* absent below 5.
C23_TotalIsSumOfIncrements ==
  \A c \in GrammarCases :
    grammarCaseAnalysed(c) =>
      [requestResults.languageResult EXCEPT !.description = ""] = tierOf(incrementSum(c))

(***************************************************************************)
(* The edit distance                                                       *)
(***************************************************************************)

\* the distances of the three strings have been computed
measured == reply # NoCall /\ reply.op = "levenshteinDistance"

\* the least number of insertions, deletions and substitutions of one
\* character that turn a into b, by the recurrence on the first characters
RECURSIVE editDistance(_, _)
editDistance(a, b) ==
  IF Len(a) = 0 THEN Len(b)
  ELSE IF Len(b) = 0 THEN Len(a)
  ELSE Min3(editDistance(substringFrom(a, 2), b) + 1,
            editDistance(a, substringFrom(b, 2)) + 1,
            editDistance(substringFrom(a, 2), substringFrom(b, 2))
              + (IF charAt(a, 1) = charAt(b, 1) THEN 0 ELSE 1))

\* C24: levenshteinDistance(a, b) is the classic edit distance of a and b
\* (insertion, deletion and substitution cost 1 each); the distance to or from
\* the empty string is the other string's length, and the distance of a string
\* to itself is 0.
C24_IsEditDistance ==
  measured =>
    /\ reply.ab = editDistance(request.a, request.b)
    /\ reply.bc = editDistance(request.b, request.c)
    /\ request.b = "" => reply.ab = Len(request.a)
    /\ request.a = "" => reply.ab = Len(request.b)
    /\ request.a = request.b => reply.ab = 0

\* a distance of 2 between two strings of length 3, which takes a deletion and
\* an insertion and no substitution
C24_Witness ==
  /\ measured
  /\ request.a = "abb"
  /\ request.b = "bab"
  /\ reply.ab = 2
  /\ request.c = ""
  /\ reply.ac = 3

\* C25: levenshteinDistance is symmetric and satisfies the triangle
\* inequality: for all a, b, c the distance from a to b is the distance from b
\* to a, and the distance from a to c is at most the distance from a to b plus
\* the distance from b to c.
C25_SymmetricAndTriangle ==
  measured =>
    /\ reply.ab = reply.ba
    /\ reply.ac <= reply.ab + reply.bc

\* a triple where the triangle inequality holds with equality and no distance
\* is 0
C25_Witness ==
  /\ measured
  /\ request.a = "aa"
  /\ request.b = "ab"
  /\ request.c = "bb"
  /\ reply.ab = 1
  /\ reply.bc = 1
  /\ reply.ac = 2
  /\ reply.ba = 1

(***************************************************************************)
(* Mail from a brand's own domain                                          *)
(***************************************************************************)

\* the heuristic ran to its end on a sender whose domain is <brand>.com for a
\* listed brand
ownDomainAnalysed ==
  /\ heuristicResult
  /\ \E k \in 1..Len(commonDomainsToSpoof) :
       domainOf(request.sender.val) = commonDomainsToSpoof[k] \o ".com"

\* C26: a sender whose domain is exactly <brand>.com for a listed brand is
\* not reported as spoofed: the domain analyzer returns isSuspicious false and
\* no Spoofed Domain indicator is emitted.
C26_OwnDomainNotSpoofed ==
  ownDomainAnalysed =>
    /\ ~requestResults.spoofingResult.isSuspicious
    /\ \A k \in 1..Len(reply.result.indicators) :
         reply.result.indicators[k].type # "Spoofed Domain"

(***************************************************************************)
(* The alerts of the fraud check route                                     *)
(***************************************************************************)

\* the alerts and the Fraud Alert log entries stored after construction
requestAlerts ==
  SubSeq(store.fraudAlerts, Len(constructorStore.fraudAlerts) + 1, Len(store.fraudAlerts))

requestLogs ==
  SubSeq(store.activityLogs, Len(constructorStore.activityLogs) + 1,
         Len(store.activityLogs))

\* the check requests whose handler has run detectFraud, and among them those
\* whose handler has come back from storing the alert
checked == {i \in 1..Len(inflight) : inflight[i].kind = "check" /\ inflight[i].pc # "received"}

logged ==
  {i \in checked : inflight[i].pc \in {"createActivityLog", "responded"}}

\* all requests received have been responded to
allResponded ==
  \A i \in 1..Len(inflight) : inflight[i].pc = "responded"

\* C27: every alert the check route stores has severity Medium or High; there
\* is one alert for each request whose detectFraud result is fraudulent and
\* none for the others, and one activity log entry for each such request once
\* its handler has passed the alert; the type of an alert is the first
\* triggered rule of its request.
C27_OneAlertPerFraudulentCheck ==
  /\ \A k \in 1..Len(requestAlerts) : requestAlerts[k].severity \in {"Medium", "High"}
  /\ Len(requestAlerts) = Cardinality({i \in checked : inflight[i].isFraudulent})
  /\ Len(requestLogs) = Cardinality({i \in logged : inflight[i].isFraudulent})
  /\ \A id \in {rules[k].id : k \in 1..Len(rules)} \cup {"undefined"} :
       Cardinality({k \in 1..Len(requestAlerts) : requestAlerts[k].alertType = id})
         = Cardinality({i \in checked : /\ inflight[i].isFraudulent
                                        /\ inflight[i].triggeredRules[1] = id})
  /\ \A k \in 1..Len(requestLogs) : requestLogs[k].activityType = "Fraud Alert"

\* two check requests with a rule update between them were answered, and the
\* two alerts stored differ in severity
C27_Witness ==
  /\ allResponded
  /\ Cardinality(checked) = 2
  /\ Len(requestAlerts) = 2
  /\ Len(requestLogs) = 2
  /\ requestAlerts[1].severity = "Medium"
  /\ requestAlerts[2].severity = "High"
  /\ requestAlerts[2].alertType = "multiple-attempts"
  /\ requestAlerts[2].id = 5

(***************************************************************************)
(* The indicators of concurrently analysed emails                          *)
(***************************************************************************)

\* the analysis requests whose email was stored
stored == {i \in 1..Len(inflight) : inflight[i].kind = "analyze" /\ inflight[i].emailId # 0}

\* the indicators without the fields the store adds
asAnalysed(indicators) ==
  [k \in 1..Len(indicators) |->
     Indicator(indicators[k].type, indicators[k].description, indicators[k].severity,
               indicators[k].confidence)]

\* C28: once all requests have completed, the indicator list of each stored
\* email, as getPhishingEmailById returns it, is the indicator list of that
\* email's own analysis in the order of the analysis, under every
\* interleaving of the handlers.
C28_IndicatorsOfOwnAnalysis ==
  allResponded =>
    \A i \in stored :
      /\ asAnalysed(getPhishingIndicatorsByEmailId(store, inflight[i].emailId))
           = inflight[i].analysisResult.indicators
      /\ inflight[i].response.status = 200
      /\ asAnalysed(inflight[i].response.email.indicators)
           = inflight[i].analysisResult.indicators
      /\ \A k \in 1..Len(inflight[i].response.email.indicators) :
           inflight[i].response.email.indicators[k].emailId = inflight[i].emailId

\* two emails with different indicator lists were analysed, and the handler of
\* the second stored its email while the first was between its two indicators
C28_Witness ==
  /\ allResponded
  /\ stored = {1, 2}
  /\ Len(inflight[1].analysisResult.indicators) = 2
  /\ Len(inflight[2].analysisResult.indicators) = 1
  /\ inflight[1].emailId = 4
  /\ inflight[2].emailId = 5
  /\ [k \in 1..3 |-> store.phishingIndicators[7 + k].emailId] = <<4, 5, 4>>

(***************************************************************************)
(* The ids of the store                                                    *)
(***************************************************************************)

\* the ids of a map in creation order start from 1 and increase, and the
\* counter is greater than each of them
idsInOrder(map, counter) ==
  /\ Len(map) > 0 => map[1].id = 1
  /\ \A k \in 1..(Len(map) - 1) : map[k].id < map[k + 1].id
  /\ \A k \in 1..Len(map) : map[k].id < counter

\* a stored email without its indicators array, which getPhishingEmailById
\* assigns
emailRecord(email) == [f \in DOMAIN email \ {"indicators"} |-> email[f]]

\* every record of the map before the step is the record at the same place
\* after the step
keptIn(before, after) ==
  /\ Len(before) <= Len(after)
  /\ \A k \in 1..Len(before) : after[k] = before[k]

\* the number of records of the four maps
recordCount(s) ==
  Len(s.fraudAlerts) + Len(s.activityLogs) + Len(s.phishingEmails)
  + Len(s.phishingIndicators)

\* a step of a handler that calls one of the create operations
createStep == store'.fraudAlertIdCounter + store'.activityLogIdCounter
              + store'.phishingEmailIdCounter + store'.phishingIndicatorIdCounter
              # store.fraudAlertIdCounter + store.activityLogIdCounter
                + store.phishingEmailIdCounter + store.phishingIndicatorIdCounter

\* C30: under every interleaving of the handlers, the ids within each map of
\* the store are distinct and increase in creation order from 1, each id
\* counter is greater than every id of its map, and a create adds one record
\* and leaves every stored record as it was.
C30_IdsDistinctIncreasing ==
  /\ [](/\ idsInOrder(store.fraudAlerts, store.fraudAlertIdCounter)
        /\ idsInOrder(store.activityLogs, store.activityLogIdCounter)
        /\ idsInOrder(store.phishingEmails, store.phishingEmailIdCounter)
        /\ idsInOrder(store.phishingIndicators, store.phishingIndicatorIdCounter))
  /\ [][store' # store =>
          /\ keptIn(store.fraudAlerts, store'.fraudAlerts)
          /\ keptIn(store.activityLogs, store'.activityLogs)
          /\ keptIn(store.phishingIndicators, store'.phishingIndicators)
          /\ keptIn([k \in 1..Len(store.phishingEmails) |->
                       emailRecord(store.phishingEmails[k])],
                    [k \in 1..Len(store'.phishingEmails) |->
                       emailRecord(store'.phishingEmails[k])])
          /\ createStep => recordCount(store') = recordCount(store) + 1]_vars

\* two emails, three indicators and two log entries were stored after
\* construction, the creates of the two analysis handlers interleaved
C30_Witness ==
  /\ allResponded
  /\ stored = {1, 2}
  /\ store.phishingEmailIdCounter = 6
  /\ store.phishingIndicatorIdCounter = 11
  /\ [k \in 1..3 |-> store.phishingIndicators[7 + k].emailId] = <<4, 5, 4>>
  /\ store.phishingIndicators[10].id = 10
  /\ store.activityLogIdCounter = 8

(***************************************************************************)
(* The threshold fallback of the multiple-attempts rule                    *)
(***************************************************************************)

\* the multiple-attempts rule has no threshold, or the threshold 0
thresholdZeroOrAbsent ==
  ~has(rules[1], "threshold") \/ rules[1].threshold = 0

\* C29: when the threshold of the multiple-attempts rule is 0 or absent after
\* an updateRules call, the rule falls back to 3: while it is enabled,
\* detectFraud lists it exactly when the record's failedAttempts >= 3, and
\* its predicate holds exactly then.
C29_ZeroOrAbsentThresholdIsThree ==
  (detected /\ thresholdZeroOrAbsent) =>
    /\ check(rules[1].check, fraudData, rules) <=> attempts >= 3
    /\ truthy(rules[1], "enabled") => (listed("multiple-attempts") <=> attempts >= 3)
    /\ ~truthy(rules[1], "enabled") => ~listed("multiple-attempts")

\* the threshold was set to 0 and a record with 2 failed attempts did not
\* trigger the rule
C29_Witness ==
  /\ detected
  /\ truthy(rules[1], "enabled")
  /\ has(rules[1], "threshold")
  /\ rules[1].threshold = 0
  /\ attempts = 2
  /\ has(fraudData, "failedAttempts")
  /\ ~listed("multiple-attempts")

====
